---- MODULE Spec2Model ----
(***************************************************************************)
(* Integer-field diffusion engine: Field primitives, the flow kernel, the  *)
(* sequential and fused steppers, the tiled incremental stepper and the    *)
(* StepController, together with the C entry points that wrap them.        *)
(*                                                                         *)
(* A u32 cell is kept as two 16-bit halves <<hi, lo>> (value hi*2^16+lo),  *)
(* so that the result of an `as u32` cast, including 2^32 - 1, is a value  *)
(* of the model.  i64 quantities are integers; a step is explored only     *)
(* from fields whose cells are at most MaxCell, where gradient *           *)
(* conductivity is computed without loss.                                  *)
(***************************************************************************)
EXTENDS Integers, Sequences, FiniteSets, TLC

VARIABLES
    field,      \* the Field behind a va_create_field handle, or Null
    ctrl,       \* the StepController behind a va_create_step_controller handle, or Null
    last,       \* the last entry point called: its name, arguments, return code, value
    mark,       \* observer: the mass the caller last wrote, the field as the last step began,
                \* the arguments of the constructor, the ticks of the step in progress
    picked      \* the queue positions already processed, when tiles are taken in any order

vars == <<field, ctrl, last, mark, picked>>

(***************************************************************************)
(* Bounds of the exploration.                                              *)
(***************************************************************************)
MaxGen == 2
MaxCell == 32767

Dims == {<<2, 3, 1>>, <<2, 2, 2>>, <<17, 1, 1>>, <<33, 1, 1>>}
\* Two tiles of two rows each, for the runs that process tiles in any order.
TiledDims == {<<17, 2, 1>>}
BadDims == {<<0, 2, 1>>, <<2, -1, 1>>, <<2, 2, 0>>}
Rates == {0, 2}
Patterns == {<<0, 0, 0, 1, 6, 0>>, <<0, 0, 7, 1, 0, 0>>, <<30000, 0, 12345, 7, 1, 500>>}
SetCoords == {<<1, 1, 0>>, <<-1, 0, 0>>, <<0, 3, 0>>}
SetValues == {9}
\* Tiles a tick completes before its deadline passes; 0 is a deadline already passed.
TickTiles == {0, 2, 3}

\* A null handle, and Option::None for active_step.
Null == [null |-> TRUE]
None == [none |-> TRUE]

(***************************************************************************)
(* u32 and i64 arithmetic.                                                 *)
(***************************************************************************)
Half == 2 ^ 16

\* `v as u32` for an i64 v: v modulo 2^32, as two 16-bit halves.
AsU32(v) == <<(v \div Half) % Half, v % Half>>

\* `c as i64` for a u32 c.
AsI64(c) == (c[1] * Half) + c[2]

\* `((c as i64) + delta) as u32` for a u32 c and an i64 delta, on the halves.
WrapAdd(c, delta) ==
    LET lo == c[2] + delta
    IN  <<(c[1] + (lo \div Half)) % Half, lo % Half>>

\* Rust's `/` and `%` on i64 truncate toward zero (b > 0 here).
TruncDiv(a, b) == IF a >= 0 THEN a \div b ELSE -((-a) \div b)
TruncRem(a, b) == a - (b * TruncDiv(a, b))
Abs(a) == IF a >= 0 THEN a ELSE -a

\* The exact integer sum of a cell array, as normalised halves <<hi, lo>>.
\* SumHalf adds half k of cells[lo .. hi], splitting the range in two.
RECURSIVE SumHalf(_, _, _, _)
SumHalf(cells, k, lo, hi) ==
    IF lo > hi THEN 0
    ELSE IF lo = hi THEN cells[lo][k]
    ELSE LET mid == (lo + hi) \div 2
         IN  SumHalf(cells, k, lo, mid) + SumHalf(cells, k, mid + 1, hi)

Mass(cells) ==
    LET n  == Cardinality(DOMAIN cells)
        hi == SumHalf(cells, 1, 0, n - 1)
        lo == SumHalf(cells, 2, 0, n - 1)
    IN  <<hi + (lo \div Half), lo % Half>>

(***************************************************************************)
(* field.rs: Field primitives.                                             *)
(***************************************************************************)
\* create_field that sizes the cells for one layer only.
create_field_one_layer(width, height, depth, diffusion_rate) ==
    [width |-> width, height |-> height, depth |-> depth,
     cells |-> [i \in 0 .. width * height - 1 |-> AsU32(0)],
     generation |-> 0,
     diffusion_rate |-> diffusion_rate,
     conductivity |-> 65535]

create_field(width, height, depth, diffusion_rate) ==
    [width |-> width, height |-> height, depth |-> depth,
     cells |-> [i \in 0 .. width * height * depth - 1 |-> AsU32(0)],
     generation |-> 0,
     diffusion_rate |-> diffusion_rate,
     conductivity |-> 65535]

field_index_of(f, x, y, z) == (z * f.height * f.width) + (y * f.width) + x

field_in_bounds(f, x, y, z) ==
    x >= 0 /\ x < f.width /\ y >= 0 /\ y < f.height /\ z >= 0 /\ z < f.depth

\* field_set without the bounds check.
field_set_unchecked(f, x, y, z, value) ==
    [f EXCEPT !.cells[field_index_of(f, x, y, z)] = value]

field_set(f, x, y, z, value) ==
    IF field_in_bounds(f, x, y, z)
    THEN [f EXCEPT !.cells[field_index_of(f, x, y, z)] = value]
    ELSE f

field_get(f, x, y, z) ==
    IF field_in_bounds(f, x, y, z)
    THEN f.cells[field_index_of(f, x, y, z)]
    ELSE AsU32(0)

(***************************************************************************)
(* The flow kernel.  Returns the flow and the new remainder accumulator.   *)
(***************************************************************************)
\* A kernel that biases by +1 whatever the sign of the gradient.
compute_flow_rounds_up(gradient, conductivity, divisor, remainder_acc) ==
    LET product        == gradient * conductivity
        flow_truncated == TruncDiv(product, divisor)
        remainder      == TruncRem(product, divisor)
        acc            == remainder_acc + Abs(remainder)
    IN  IF acc >= divisor
        THEN [flow |-> flow_truncated + 1, acc |-> acc - divisor]
        ELSE [flow |-> flow_truncated, acc |-> acc]

\* A kernel that only truncates: the remainder is dropped.
compute_flow_truncates(gradient, conductivity, divisor, remainder_acc) ==
    LET product == gradient * conductivity
    IN  [flow |-> TruncDiv(product, divisor), acc |-> remainder_acc]

\* A kernel that adds the remainder with its sign instead of its absolute value.
compute_flow_signed_remainder(gradient, conductivity, divisor, remainder_acc) ==
    LET product        == gradient * conductivity
        flow_truncated == TruncDiv(product, divisor)
        remainder      == TruncRem(product, divisor)
        acc            == remainder_acc + remainder
    IN  IF acc >= divisor
        THEN [flow |-> IF gradient >= 0 THEN flow_truncated + 1 ELSE flow_truncated - 1,
              acc  |-> acc - divisor]
        ELSE [flow |-> flow_truncated, acc |-> acc]

\* A kernel that tests the accumulator before adding the remainder to it.
compute_flow_tests_before_adding(gradient, conductivity, divisor, remainder_acc) ==
    LET product        == gradient * conductivity
        flow_truncated == TruncDiv(product, divisor)
        remainder      == TruncRem(product, divisor)
    IN  IF remainder_acc >= divisor
        THEN [flow |-> IF gradient >= 0 THEN flow_truncated + 1 ELSE flow_truncated - 1,
              acc  |-> remainder_acc - divisor + Abs(remainder)]
        ELSE [flow |-> flow_truncated, acc |-> remainder_acc + Abs(remainder)]

\* A kernel that rounds up without taking the divisor off the accumulator.
compute_flow_keeps_carry(gradient, conductivity, divisor, remainder_acc) ==
    LET product        == gradient * conductivity
        flow_truncated == TruncDiv(product, divisor)
        remainder      == TruncRem(product, divisor)
        acc            == remainder_acc + Abs(remainder)
    IN  IF acc >= divisor
        THEN [flow |-> IF gradient >= 0 THEN flow_truncated + 1 ELSE flow_truncated - 1,
              acc  |-> acc]
        ELSE [flow |-> flow_truncated, acc |-> acc]

compute_flow(gradient, conductivity, divisor, remainder_acc) ==
    LET product        == gradient * conductivity
        flow_truncated == TruncDiv(product, divisor)
        remainder      == TruncRem(product, divisor)
        acc            == remainder_acc + Abs(remainder)
    IN  IF acc >= divisor
        THEN [flow |-> IF gradient >= 0 THEN flow_truncated + 1 ELSE flow_truncated - 1,
              acc  |-> acc - divisor]
        ELSE [flow |-> flow_truncated, acc |-> acc]

\* divisor = (7i64 << shift) << 16
Divisor(shift) == (7 * 2 ^ shift) * Half

\* The coordinates visited by `for z { for y { for x {..} } }` over
\* x0..x0+nx, y0..y0+ny, z0..z0+nz (exclusive ends), in loop order.
LoopNest(x0, nx, y0, ny, z0, nz) ==
    [k \in 1 .. nx * ny * nz |->
        <<x0 + ((k - 1) % nx), y0 + (((k - 1) \div nx) % ny), z0 + ((k - 1) \div (nx * ny))>>]

\* One interior pair: gradient from `read`, flow applied to both ends of new_cells.
PairFlow(read, st, idx_a, idx_b, conductivity, divisor) ==
    LET gradient == AsI64(read[idx_a]) - AsI64(read[idx_b])
        r        == compute_flow(gradient, conductivity, divisor, st.acc)
        a1       == WrapAdd(st.cells[idx_a], -r.flow)
        c1       == [st.cells EXCEPT ![idx_a] = a1]
        b1       == WrapAdd(c1[idx_b], r.flow)
    IN  [cells |-> [c1 EXCEPT ![idx_b] = b1], acc |-> r.acc]

\* InOrder(first, rest) is rest, with `first` evaluated before it: a loop's
\* iterations are evaluated front to back.
InOrder(first, rest) == IF first = first THEN rest ELSE rest

\* One axis pass of field_step / field_step_fused over coords[lo .. hi], in order;
\* dx, dy, dz name the axis.  The range is split in two to keep the evaluation shallow.
RECURSIVE AxisRange(_, _, _, _, _, _, _, _, _)
AxisRange(f, read, st, coords, lo, hi, dx, dy, dz) ==
    IF lo > hi THEN st
    ELSE IF lo = hi
    THEN LET c     == coords[lo]
             idx_a == field_index_of(f, c[1], c[2], c[3])
             idx_b == field_index_of(f, c[1] + dx, c[2] + dy, c[3] + dz)
         IN  PairFlow(read, st, idx_a, idx_b, f.conductivity, Divisor(f.diffusion_rate))
    ELSE LET mid  == (lo + hi) \div 2
             left == AxisRange(f, read, st, coords, lo, mid, dx, dy, dz)
         IN  InOrder(left, AxisRange(f, read, left, coords, mid + 1, hi, dx, dy, dz))

AxisPass(f, read, st, coords, dx, dy, dz) ==
    AxisRange(f, read, st, coords, 1, Len(coords), dx, dy, dz)

XCoords(f) == LoopNest(0, f.width - 1, 0, f.height, 0, f.depth)
YCoords(f) == LoopNest(0, f.width, 0, f.height - 1, 0, f.depth)
ZCoords(f) == LoopNest(0, f.width, 0, f.height, 0, f.depth - 1)

\* Sequential stepper: each axis reads the cells copied back after the previous axis.
field_step(f) ==
    LET s0 == [cells |-> f.cells, acc |-> 0]
        sx == AxisPass(f, f.cells, s0, XCoords(f), 1, 0, 0)
        sy == AxisPass(f, sx.cells, sx, YCoords(f), 0, 1, 0)
        sz == AxisPass(f, sy.cells, sy, ZCoords(f), 0, 0, 1)
    IN  [f EXCEPT !.cells = sz.cells, !.generation = f.generation + 1]

\* A fused stepper whose Y pass was left out.
field_step_fused_skips_y(f) ==
    LET s0 == [cells |-> f.cells, acc |-> 0]
        sx == AxisPass(f, f.cells, s0, XCoords(f), 1, 0, 0)
        sz == AxisPass(f, f.cells, sx, ZCoords(f), 0, 0, 1)
    IN  [f EXCEPT !.cells = sz.cells, !.generation = f.generation + 1]

\* Fused stepper: all three axes read the pre-step cells.
field_step_fused(f) ==
    LET s0 == [cells |-> f.cells, acc |-> 0]
        sx == AxisPass(f, f.cells, s0, XCoords(f), 1, 0, 0)
        sy == AxisPass(f, f.cells, sx, YCoords(f), 0, 1, 0)
        sz == AxisPass(f, f.cells, sy, ZCoords(f), 0, 0, 1)
    IN  [f EXCEPT !.cells = sz.cells, !.generation = f.generation + 1]

(***************************************************************************)
(* incremental.rs: tile queue.                                             *)
(***************************************************************************)
TILE_SIZE == 16

RECURSIVE BitAnd(_, _)
BitAnd(a, b) ==
    IF a = 0 \/ b = 0 THEN 0
    ELSE ((a % 2) * (b % 2)) + (2 * BitAnd(a \div 2, b \div 2))

BitOr(a, b) == a + b - BitAnd(a, b)
Shl(a, n) == a * (2 ^ n)

\* 0x030000FF, 0x0300F00F, 0x030C30C3, 0x09249249
spread_bits(v) ==
    LET x1 == BitAnd(BitOr(v, Shl(v, 16)), 50331903)
        x2 == BitAnd(BitOr(x1, Shl(x1, 8)), 50393103)
        x3 == BitAnd(BitOr(x2, Shl(x2, 4)), 51130563)
    IN  BitAnd(BitOr(x3, Shl(x3, 2)), 153391689)

morton_encode(x, y, z) ==
    BitOr(BitOr(spread_bits(x), Shl(spread_bits(y), 1)), Shl(spread_bits(z), 2))

\* Stable insertion of e into a sequence sorted by morton key.
RECURSIVE InsertByKey(_, _)
InsertByKey(sorted, e) ==
    IF sorted = <<>> THEN <<e>>
    ELSE IF sorted[Len(sorted)].morton <= e.morton THEN Append(sorted, e)
    ELSE Append(InsertByKey(SubSeq(sorted, 1, Len(sorted) - 1), e), sorted[Len(sorted)])

RECURSIVE SortByKey(_, _, _)
SortByKey(tiles, i, sorted) ==
    IF i > Len(tiles) THEN sorted
    ELSE SortByKey(tiles, i + 1, InsertByKey(sorted, tiles[i]))

build_tile_queue(tiles_x, tiles_y, tiles_z) ==
    LET coords == LoopNest(0, tiles_x, 0, tiles_y, 0, tiles_z)
        tiles  == [k \in 1 .. Len(coords) |->
                     [morton |-> morton_encode(coords[k][1], coords[k][2], coords[k][3]),
                      coord  |-> [tx |-> coords[k][1], ty |-> coords[k][2],
                                  tz |-> coords[k][3]]]]
        sorted == SortByKey(tiles, 1, <<>>)
    IN  [k \in 1 .. Len(sorted) |-> sorted[k].coord]

(***************************************************************************)
(* incremental.rs: processing one tile.                                    *)
(***************************************************************************)
field_index(step, x, y, z) == (z * step.height * step.width) + (y * step.width) + x

Min(a, b) == IF a < b THEN a ELSE b
RangeLen(lo, hi) == IF hi > lo THEN hi - lo ELSE 0

\* An interior contract that takes its gradient from target instead of source.
InteriorContract_reads_target(step, st, idx_a, idx_b) ==
    LET p == PairFlow(st.cells, st, idx_a, idx_b, 65535, Divisor(step.diffusion_rate))
    IN  [cells |-> p.cells, acc |-> p.acc,
         owner |-> st.owner \cup {idx_a}, nbr |-> st.nbr \cup {idx_b},
         mirror |-> st.mirror, pairs |-> Append(st.pairs, <<idx_a, idx_b>>)]

\* An interior contract whose gradient takes the owner's value from target.
InteriorContract_owner_from_target(step, st, idx_a, idx_b) ==
    LET gradient == AsI64(st.cells[idx_a]) - AsI64(step.source[idx_b])
        r        == compute_flow(gradient, 65535, Divisor(step.diffusion_rate), st.acc)
        a1       == WrapAdd(st.cells[idx_a], -r.flow)
        c1       == [st.cells EXCEPT ![idx_a] = a1]
        b1       == WrapAdd(c1[idx_b], r.flow)
    IN  [cells |-> [c1 EXCEPT ![idx_b] = b1], acc |-> r.acc,
         owner |-> st.owner \cup {idx_a}, nbr |-> st.nbr \cup {idx_b},
         mirror |-> st.mirror, pairs |-> Append(st.pairs, <<idx_a, idx_b>>)]

\* Interior contract: gradient from source, flow applied to both ends of target.
\* owner / nbr collect the target indices written through idx_a / idx_b.
InteriorContract(step, st, idx_a, idx_b) ==
    LET p == PairFlow(step.source, st, idx_a, idx_b, 65535, Divisor(step.diffusion_rate))
    IN  [cells |-> p.cells, acc |-> p.acc,
         owner |-> st.owner \cup {idx_a}, nbr |-> st.nbr \cup {idx_b},
         mirror |-> st.mirror, pairs |-> Append(st.pairs, <<idx_a, idx_b>>)]

\* What one boundary-mirror invocation did: its flow, whether the owner's target
\* was 0, whether the accumulator was above 0, and whether the cast wrapped.
MirrorEffect(before, flow, acc) ==
    [flow |-> flow, owner_zero |-> before = AsU32(0), biased |-> acc > 0,
     wrapped |-> \/ (before = AsU32(0) /\ flow > 0)
                 \/ (before = <<Half - 1, Half - 1>> /\ flow < 0),
     to_max |-> before # <<Half - 1, Half - 1>>
                  /\ WrapAdd(before, -flow) = <<Half - 1, Half - 1>>]

\* Boundary mirror: gradient of the owner against itself, flow applied to the owner only.
MirrorContract(step, st, idx_a) ==
    LET gradient == AsI64(step.source[idx_a]) - AsI64(step.source[idx_a])
        r        == compute_flow(gradient, 65535, Divisor(step.diffusion_rate), st.acc)
    IN  [cells |-> [st.cells EXCEPT ![idx_a] = WrapAdd(st.cells[idx_a], -r.flow)],
         acc   |-> r.acc,
         owner |-> st.owner \cup {idx_a}, nbr |-> st.nbr,
         mirror |-> st.mirror \cup {MirrorEffect(st.cells[idx_a], r.flow, st.acc)},
         pairs |-> st.pairs]

\* A cell whose Y contract pairs it with its X neighbour again.
ProcessCell_x_twice(step, st, x, y, z) ==
    LET a  == field_index(step, x, y, z)
        sx == IF x + 1 < step.width
              THEN InteriorContract(step, st, a, field_index(step, x + 1, y, z))
              ELSE MirrorContract(step, st, a)
        sy == IF y + 1 < step.height
              THEN InteriorContract(step, sx, a, field_index(step, x + 1, y, z))
              ELSE MirrorContract(step, sx, a)
    IN  IF z + 1 < step.depth
        THEN InteriorContract(step, sy, a, field_index(step, x, y, z + 1))
        ELSE MirrorContract(step, sy, a)

ProcessCell(step, st, x, y, z) ==
    LET a  == field_index(step, x, y, z)
        sx == IF x + 1 < step.width
              THEN InteriorContract(step, st, a, field_index(step, x + 1, y, z))
              ELSE MirrorContract(step, st, a)
        sy == IF y + 1 < step.height
              THEN InteriorContract(step, sx, a, field_index(step, x, y + 1, z))
              ELSE MirrorContract(step, sx, a)
    IN  IF z + 1 < step.depth
        THEN InteriorContract(step, sy, a, field_index(step, x, y, z + 1))
        ELSE MirrorContract(step, sy, a)

\* The cells coords[lo .. hi] of a tile, in loop order (the range is split in two).
RECURSIVE ProcessCells(_, _, _, _, _)
ProcessCells(step, st, coords, lo, hi) ==
    IF lo > hi THEN st
    ELSE IF lo = hi
    THEN ProcessCell(step, st, coords[lo][1], coords[lo][2], coords[lo][3])
    ELSE LET mid  == (lo + hi) \div 2
             left == ProcessCells(step, st, coords, lo, mid)
         IN  InOrder(left, ProcessCells(step, left, coords, mid + 1, hi))

\* Tile ranges that run one cell past the tile's high faces.
TileCells_overlapping(step, tile) ==
    LET x_start == tile.tx * TILE_SIZE
        y_start == tile.ty * TILE_SIZE
        z_start == tile.tz * TILE_SIZE
        x_end   == Min(x_start + TILE_SIZE + 1, step.width)
        y_end   == Min(y_start + TILE_SIZE + 1, step.height)
        z_end   == Min(z_start + TILE_SIZE + 1, step.depth)
    IN  LoopNest(x_start, RangeLen(x_start, x_end), y_start, RangeLen(y_start, y_end),
                 z_start, RangeLen(z_start, z_end))

TileCells(step, tile) ==
    LET x_start == tile.tx * TILE_SIZE
        y_start == tile.ty * TILE_SIZE
        z_start == tile.tz * TILE_SIZE
        x_end   == Min(x_start + TILE_SIZE, step.width)
        y_end   == Min(y_start + TILE_SIZE, step.height)
        z_end   == Min(z_start + TILE_SIZE, step.depth)
    IN  LoopNest(x_start, RangeLen(x_start, x_end), y_start, RangeLen(y_start, y_end),
                 z_start, RangeLen(z_start, z_end))

\* A run whose accumulator starts at the divisor instead of 0.
TileRun_acc_from_divisor(step, tile, target) ==
    ProcessCells(step, [cells |-> target, acc |-> Divisor(step.diffusion_rate),
                        owner |-> {}, nbr |-> {}, mirror |-> {},
                        pairs |-> <<>>],
                 TileCells(step, tile), 1, Len(TileCells(step, tile)))

\* A run whose accumulator starts from a value left by the steps before it.
TileRun_seeded(step, tile, target) ==
    ProcessCells(step, [cells |-> target, acc |-> step.target_generation * 3 * Half,
                        owner |-> {}, nbr |-> {}, mirror |-> {},
                        pairs |-> <<>>],
                 TileCells(step, tile), 1, Len(TileCells(step, tile)))

\* The run of process_tile on a target: the new target, the final tile-local
\* accumulator, the indices written and the pairs processed, in order.
TileRun(step, tile, target) ==
    ProcessCells(step, [cells |-> target, acc |-> 0, owner |-> {}, nbr |-> {}, mirror |-> {},
                        pairs |-> <<>>],
                 TileCells(step, tile), 1, Len(TileCells(step, tile)))

process_tile(step, tile) ==
    [step EXCEPT !.target = TileRun(step, tile, step.target).cells]

(***************************************************************************)
(* incremental.rs: StepController.                                         *)
(***************************************************************************)
StepController_new(width, height, depth, diffusion_rate) ==
    [field |-> create_field(width, height, depth, diffusion_rate), active_step |-> None]

is_stepping(c) == c.active_step # None

\* A begin_step whose target buffer starts zeroed instead of cloned.
BeginStepBody_blank_target(c) ==
    LET width       == c.field.width
        height      == c.field.height
        depth       == c.field.depth
        tiles_x     == (width + TILE_SIZE - 1) \div TILE_SIZE
        tiles_y     == (height + TILE_SIZE - 1) \div TILE_SIZE
        tiles_z     == (depth + TILE_SIZE - 1) \div TILE_SIZE
        step == [source            |-> c.field.cells,
                 target            |-> [i \in DOMAIN c.field.cells |-> AsU32(0)],
                 tile_queue        |-> build_tile_queue(tiles_x % 256, tiles_y % 256,
                                                        tiles_z % 256),
                 next_tile         |-> 0,
                 total_tiles       |-> tiles_x * tiles_y * tiles_z,
                 target_generation |-> c.field.generation + 1,
                 width             |-> width,
                 height            |-> height,
                 depth             |-> depth,
                 diffusion_rate    |-> c.field.diffusion_rate]
    IN  [ok |-> TRUE, ctrl |-> [c EXCEPT !.active_step = step]]

BeginStepBody(c) ==
    LET width       == c.field.width
        height      == c.field.height
        depth       == c.field.depth
        tiles_x     == (width + TILE_SIZE - 1) \div TILE_SIZE
        tiles_y     == (height + TILE_SIZE - 1) \div TILE_SIZE
        tiles_z     == (depth + TILE_SIZE - 1) \div TILE_SIZE
        step == [source            |-> c.field.cells,
                 target            |-> c.field.cells,
                 tile_queue        |-> build_tile_queue(tiles_x % 256, tiles_y % 256,
                                                        tiles_z % 256),
                 next_tile         |-> 0,
                 total_tiles       |-> tiles_x * tiles_y * tiles_z,
                 target_generation |-> c.field.generation + 1,
                 width             |-> width,
                 height            |-> height,
                 depth             |-> depth,
                 diffusion_rate    |-> c.field.diffusion_rate]
    IN  [ok |-> TRUE, ctrl |-> [c EXCEPT !.active_step = step]]

\* begin_step without the is_stepping check: it restarts the step.
begin_step_restart(c) == BeginStepBody(c)

begin_step(c) ==
    IF is_stepping(c) THEN [ok |-> FALSE, ctrl |-> c] ELSE BeginStepBody(c)

\* finalize_step that installs the target but leaves the generation as it was.
finalize_step_same_generation(c) ==
    IF c.active_step # None
    THEN [field |-> [c.field EXCEPT !.cells = c.active_step.target], active_step |-> None]
    ELSE c

finalize_step(c) ==
    IF c.active_step # None
    THEN [field |-> [c.field EXCEPT !.cells = c.active_step.target,
                                    !.generation = c.active_step.target_generation],
          active_step |-> None]
    ELSE c

\* A tick loop that tests the deadline after claiming a tile and before processing
\* it: the tile claimed when the deadline has passed is never processed.
RECURSIVE TickLoop_yield_after_claim(_, _, _)
TickLoop_yield_after_claim(c, expires, done) ==
    LET step     == c.active_step
        tile_idx == step.next_tile
        claimed  == [c EXCEPT !.active_step.next_tile = tile_idx + 1]
    IN  IF tile_idx >= step.total_tiles
        THEN [ret |-> TRUE, ctrl |-> finalize_step(claimed)]
        ELSE IF done >= expires
        THEN [ret |-> FALSE, ctrl |-> claimed]
        ELSE TickLoop_yield_after_claim(
                 [claimed EXCEPT !.active_step =
                     process_tile(claimed.active_step, step.tile_queue[tile_idx + 1])],
                 expires, done + 1)

\* A tick loop that tests the deadline at the top of the loop: a call whose
\* deadline has already passed returns without claiming a tile.
RECURSIVE TickLoop_deadline_first(_, _, _)
TickLoop_deadline_first(c, expires, done) ==
    LET step     == c.active_step
        tile_idx == step.next_tile
        claimed  == [c EXCEPT !.active_step.next_tile = tile_idx + 1]
    IN  IF done >= expires
        THEN [ret |-> FALSE, ctrl |-> c]
        ELSE IF tile_idx >= step.total_tiles
        THEN [ret |-> TRUE, ctrl |-> finalize_step(claimed)]
        ELSE TickLoop_deadline_first(
                 [claimed EXCEPT !.active_step =
                     process_tile(claimed.active_step, step.tile_queue[tile_idx + 1])],
                 expires, done + 1)

\* The loop of tick.  `expires` is the number of tiles completed in this call
\* when `Instant::now() >= deadline` first holds (0: the deadline has passed
\* when the call starts, as with budget 0); done counts the tiles so far.
\* A tick loop that finalizes in the call that processes the last tile, deadline
\* passed or not.
RECURSIVE TickLoop_completes_on_last_tile(_, _, _)
TickLoop_completes_on_last_tile(c, expires, done) ==
    LET step     == c.active_step
        tile_idx == step.next_tile
        claimed  == [c EXCEPT !.active_step.next_tile = tile_idx + 1]
    IN  IF tile_idx >= step.total_tiles
        THEN [ret |-> TRUE, ctrl |-> finalize_step(claimed)]
        ELSE LET worked == [claimed EXCEPT !.active_step =
                               process_tile(claimed.active_step, step.tile_queue[tile_idx + 1])]
             IN  IF tile_idx + 1 >= step.total_tiles
                 THEN [ret |-> TRUE, ctrl |-> finalize_step(worked)]
                 ELSE IF done + 1 >= expires
                      THEN [ret |-> FALSE, ctrl |-> worked]
                      ELSE TickLoop_completes_on_last_tile(worked, expires, done + 1)

\* A tick loop that finalizes one claim early: the last tile of the queue is
\* never processed.
RECURSIVE TickLoop_finalize_early(_, _, _)
TickLoop_finalize_early(c, expires, done) ==
    LET step     == c.active_step
        tile_idx == step.next_tile
        claimed  == [c EXCEPT !.active_step.next_tile = tile_idx + 1]
    IN  IF tile_idx + 1 >= step.total_tiles
        THEN [ret |-> TRUE, ctrl |-> finalize_step(claimed)]
        ELSE LET worked == [claimed EXCEPT !.active_step =
                               process_tile(claimed.active_step, step.tile_queue[tile_idx + 1])]
             IN  IF done + 1 >= expires
                 THEN [ret |-> FALSE, ctrl |-> worked]
                 ELSE TickLoop_finalize_early(worked, expires, done + 1)

RECURSIVE TickLoop(_, _, _)
TickLoop(c, expires, done) ==
    LET step     == c.active_step
        tile_idx == step.next_tile
        claimed  == [c EXCEPT !.active_step.next_tile = tile_idx + 1]
    IN  IF tile_idx >= step.total_tiles
        THEN [ret |-> TRUE, ctrl |-> finalize_step(claimed)]
        ELSE LET worked == [claimed EXCEPT !.active_step =
                               process_tile(claimed.active_step, step.tile_queue[tile_idx + 1])]
             IN  IF done + 1 >= expires
                 THEN [ret |-> FALSE, ctrl |-> worked]
                 ELSE TickLoop(worked, expires, done + 1)

\* A tick that copies the target into field.cells whenever it yields.
tick_publishing(c, expires) ==
    IF c.active_step = None THEN [ret |-> TRUE, ctrl |-> c]
    ELSE LET r == TickLoop(c, expires, 0)
         IN  IF r.ret THEN r
             ELSE [r EXCEPT !.ctrl.field.cells = r.ctrl.active_step.target]

tick(c, expires) ==
    IF c.active_step = None THEN [ret |-> TRUE, ctrl |-> c]
    ELSE TickLoop(c, expires, 0)

\* tick(u64::MAX): the deadline lies beyond every tile of the queue.
Unreached(c) == IF c.active_step = None THEN 1 ELSE c.active_step.total_tiles + 1

RECURSIVE BlockingLoop(_)
BlockingLoop(c) ==
    LET t == tick(c, Unreached(c))
    IN  IF t.ret THEN t.ctrl ELSE BlockingLoop(t.ctrl)

\* step_blocking that returns on the begin_step error instead of ignoring it.
step_blocking_returns_on_error(c) ==
    IF begin_step(c).ok THEN BlockingLoop(begin_step(c).ctrl) ELSE c

step_blocking(c) == BlockingLoop(begin_step(c).ctrl)

(***************************************************************************)
(* The state machine: one handle, a Field or a StepController, and the     *)
(* entry points called on it.  The handle that was not created is Null.    *)
(***************************************************************************)
va_create_field(width, height, depth, diffusion_rate) ==
    IF width <= 0 \/ height <= 0 \/ depth <= 0 THEN Null
    ELSE create_field(width, height, depth, diffusion_rate)

\* A constructor that refuses negative dimensions only.
va_create_step_controller_accepts_zero(width, height, depth, diffusion_rate) ==
    IF width < 0 \/ height < 0 \/ depth < 0 THEN Null
    ELSE StepController_new(width, height, depth, diffusion_rate)

va_create_step_controller(width, height, depth, diffusion_rate) ==
    IF width <= 0 \/ height <= 0 \/ depth <= 0 THEN Null
    ELSE StepController_new(width, height, depth, diffusion_rate)

Fill(f, pattern) ==
    [f EXCEPT !.cells = [i \in DOMAIN f.cells |-> AsU32(pattern[(i % Len(pattern)) + 1])]]

Called(op, ret, val) == [op |-> op, ret |-> ret, val |-> val]

\* The observer's record for a handle made by `kind`(dims, rate): f is its field, or Null.
Marked(f, kind, dims, rate) ==
    [mass  |-> IF f = Null THEN <<0, 0>> ELSE Mass(f.cells),
     begin |-> f, ticks |-> 0, kind |-> kind, dims |-> dims, rate |-> rate]

\* The observer's count of the ticks of the step in progress, after a tick left c.
Ticked(c) == [mark EXCEPT !.ticks = IF is_stepping(c) THEN @ + 1 ELSE 0]

\* A step is explored from generation < MaxGen and cells <= MaxCell.
Steppable(f) ==
    /\ f.generation < MaxGen
    /\ {i \in DOMAIN f.cells : f.cells[i][1] # 0 \/ f.cells[i][2] > MaxCell} = {}

\* The host makes one handle, a field or a controller, with dimensions drawn from dims.
Create(dims) ==
    \E d \in dims, r \in Rates, kind \in {"field", "controller"} :
        /\ field = IF kind = "field" THEN va_create_field(d[1], d[2], d[3], r) ELSE Null
        /\ ctrl = IF kind = "controller"
                  THEN va_create_step_controller(d[1], d[2], d[3], r) ELSE Null
        /\ last = Called("create", 0, AsU32(0))
        /\ mark = Marked(IF field # Null THEN field
                         ELSE IF ctrl # Null THEN ctrl.field ELSE Null, kind, d, r)
        /\ picked = {}

Init == Create(Dims \cup BadDims)

\* The host writes the initial cells of a new field, one set per cell.
HostFill(pattern) ==
    /\ last.op = "create"
    /\ field' = IF field = Null THEN field ELSE Fill(field, pattern)
    /\ ctrl' = IF ctrl = Null THEN ctrl ELSE [ctrl EXCEPT !.field = Fill(ctrl.field, pattern)]
    /\ last' = Called("fill", 0, AsU32(0))
    /\ mark' = IF field' # Null THEN [mark EXCEPT !.mass = Mass(field'.cells), !.begin = field']
               ELSE IF ctrl' # Null
               THEN [mark EXCEPT !.mass = Mass(ctrl'.field.cells), !.begin = ctrl'.field]
               ELSE mark
    /\ UNCHANGED picked

(***************************************************************************)
(* ffi/field.rs                                                            *)
(***************************************************************************)
va_destroy_field ==
    /\ field' = Null
    /\ last' = Called("va_destroy_field", 0, AsU32(0))
    /\ mark' = IF field = Null THEN mark ELSE Marked(Null, mark.kind, mark.dims, mark.rate)
    /\ UNCHANGED <<ctrl, picked>>

va_field_set(x, y, z, value) ==
    /\ field' = IF field = Null THEN field ELSE field_set(field, x, y, z, value)
    /\ last' = Called("va_field_set", 0, AsU32(0))
    /\ mark' = IF field = Null THEN mark ELSE [mark EXCEPT !.mass = Mass(field'.cells)]
    /\ UNCHANGED <<ctrl, picked>>

va_field_get(x, y, z) ==
    /\ last' = Called("va_field_get", 0,
                      IF field = Null THEN AsU32(0) ELSE field_get(field, x, y, z))
    /\ UNCHANGED <<field, ctrl, mark, picked>>

va_field_step ==
    /\ field # Null => Steppable(field)
    /\ field' = IF field = Null THEN field ELSE field_step(field)
    /\ last' = Called("va_field_step", 0, AsU32(0))
    /\ mark' = IF field = Null THEN mark ELSE [mark EXCEPT !.begin = field]
    /\ UNCHANGED <<ctrl, picked>>

\* field_step_fused called on the Field directly (it has no C entry point).
FieldStepFused ==
    /\ field # Null
    /\ Steppable(field)
    /\ field' = field_step_fused(field)
    /\ last' = Called("field_step_fused", 0, AsU32(0))
    /\ mark' = [mark EXCEPT !.begin = field]
    /\ UNCHANGED <<ctrl, picked>>

va_field_get_generation ==
    /\ last' = Called("va_field_get_generation",
                      IF field = Null THEN 0 ELSE field.generation, AsU32(0))
    /\ UNCHANGED <<field, ctrl, mark, picked>>

(***************************************************************************)
(* ffi/incremental.rs                                                      *)
(***************************************************************************)
va_destroy_step_controller ==
    /\ ctrl' = Null
    /\ last' = Called("va_destroy_step_controller", 0, AsU32(0))
    /\ mark' = IF ctrl = Null THEN mark ELSE Marked(Null, mark.kind, mark.dims, mark.rate)
    /\ UNCHANGED <<field, picked>>

\* va_sc_field_set without the is_stepping check.
va_sc_field_set_unguarded(x, y, z, value) ==
    /\ ctrl' = IF ctrl = Null THEN ctrl
               ELSE [ctrl EXCEPT !.field = field_set(ctrl.field, x, y, z, value)]
    /\ last' = Called("va_sc_field_set", 0, AsU32(0))
    /\ mark' = IF ctrl = Null THEN mark ELSE [mark EXCEPT !.mass = Mass(ctrl'.field.cells)]
    /\ UNCHANGED <<field, picked>>

va_sc_field_set(x, y, z, value) ==
    /\ ctrl' = IF ctrl = Null \/ is_stepping(ctrl) THEN ctrl
               ELSE [ctrl EXCEPT !.field = field_set(ctrl.field, x, y, z, value)]
    /\ last' = Called("va_sc_field_set", 0, AsU32(0))
    /\ mark' = IF ctrl = Null THEN mark ELSE [mark EXCEPT !.mass = Mass(ctrl'.field.cells)]
    /\ UNCHANGED <<field, picked>>

va_sc_field_get(x, y, z) ==
    /\ last' = Called("va_sc_field_get", 0,
                      IF ctrl = Null THEN AsU32(0) ELSE field_get(ctrl.field, x, y, z))
    /\ UNCHANGED <<field, ctrl, mark, picked>>

va_sc_field_get_generation ==
    /\ last' = Called("va_sc_field_get_generation",
                      IF ctrl = Null THEN 0 ELSE ctrl.field.generation, AsU32(0))
    /\ UNCHANGED <<field, ctrl, mark, picked>>

va_sc_begin_step ==
    /\ (ctrl # Null /\ ~is_stepping(ctrl)) => Steppable(ctrl.field)
    /\ LET r == IF ctrl = Null THEN [ok |-> FALSE, ctrl |-> ctrl] ELSE begin_step(ctrl)
       IN  /\ ctrl' = r.ctrl
           /\ last' = Called("va_sc_begin_step",
                             IF ctrl = Null THEN -1 ELSE IF r.ok THEN 0 ELSE 1, AsU32(0))
           /\ mark' = IF r.ok THEN [mark EXCEPT !.begin = ctrl.field, !.ticks = 0] ELSE mark
    /\ UNCHANGED <<field, picked>>

\* va_sc_tick with the two result codes exchanged.
va_sc_tick_swapped_codes(expires) ==
    /\ LET idle == ctrl = Null \/ ~is_stepping(ctrl)
           r    == IF idle THEN [ret |-> FALSE, ctrl |-> ctrl] ELSE tick(ctrl, expires)
       IN  /\ ctrl' = r.ctrl
           /\ last' = Called("va_sc_tick",
                             IF idle THEN -1 ELSE IF r.ret THEN 0 ELSE 1, AsU32(0))
           /\ mark' = IF idle THEN mark ELSE Ticked(r.ctrl)
    /\ UNCHANGED <<field, picked>>

va_sc_tick(expires) ==
    /\ LET idle == ctrl = Null \/ ~is_stepping(ctrl)
           r    == IF idle THEN [ret |-> FALSE, ctrl |-> ctrl] ELSE tick(ctrl, expires)
       IN  /\ ctrl' = r.ctrl
           /\ last' = Called("va_sc_tick",
                             IF idle THEN -1 ELSE IF r.ret THEN 1 ELSE 0, AsU32(0))
           /\ mark' = IF idle THEN mark ELSE Ticked(r.ctrl)
    /\ UNCHANGED <<field, picked>>

\* va_sc_is_stepping that reports a null controller as idle.
va_sc_is_stepping_null_as_idle ==
    /\ last' = Called("va_sc_is_stepping",
                      IF ctrl # Null /\ is_stepping(ctrl) THEN 1 ELSE 0, AsU32(0))
    /\ UNCHANGED <<field, ctrl, mark, picked>>

va_sc_is_stepping ==
    /\ last' = Called("va_sc_is_stepping",
                      IF ctrl = Null THEN -1 ELSE IF is_stepping(ctrl) THEN 1 ELSE 0,
                      AsU32(0))
    /\ UNCHANGED <<field, ctrl, mark, picked>>

va_sc_step_blocking ==
    /\ (ctrl # Null /\ ~is_stepping(ctrl)) => Steppable(ctrl.field)
    /\ ctrl' = IF ctrl = Null THEN ctrl ELSE step_blocking(ctrl)
    /\ last' = Called("va_sc_step_blocking", 0, AsU32(0))
    /\ mark' = IF ctrl = Null THEN mark
               ELSE IF ~is_stepping(ctrl) THEN [mark EXCEPT !.begin = ctrl.field, !.ticks = 0]
               ELSE mark
    /\ UNCHANGED <<field, picked>>

\* StepController::tick called on the controller directly, as the Rust callers do.
StepController_tick(expires) ==
    /\ ctrl # Null
    /\ LET r == tick(ctrl, expires)
       IN  /\ ctrl' = r.ctrl
           /\ last' = Called("StepController::tick", IF r.ret THEN 1 ELSE 0, AsU32(0))
           /\ mark' = IF is_stepping(ctrl) THEN Ticked(r.ctrl) ELSE mark
    /\ UNCHANGED <<field, picked>>

Next ==
    \/ \E p \in Patterns : HostFill(p)
    \/ va_destroy_field
    \/ va_destroy_step_controller
    \/ \E c \in SetCoords, v \in SetValues : va_field_set(c[1], c[2], c[3], AsU32(v))
    \/ \E c \in SetCoords : va_field_get(c[1], c[2], c[3])
    \/ va_field_step
    \/ FieldStepFused
    \/ va_field_get_generation
    \/ \E c \in SetCoords, v \in SetValues : va_sc_field_set(c[1], c[2], c[3], AsU32(v))
    \/ \E c \in SetCoords : va_sc_field_get(c[1], c[2], c[3])
    \/ va_sc_field_get_generation
    \/ va_sc_begin_step
    \/ \E k \in TickTiles : va_sc_tick(k)
    \/ va_sc_is_stepping
    \/ va_sc_step_blocking
    \/ \E k \in TickTiles : StepController_tick(k)

Spec == Init /\ [][Next]_vars

(***************************************************************************)
(* Tiles taken in any order: after begin_step a worker may process any     *)
(* tile of the queue that has not been processed yet; the step is          *)
(* finalized when every tile has been.                                     *)
(***************************************************************************)
InitController == Create(Dims \cup TiledDims) /\ ctrl # Null

Pending ==
    IF ctrl # Null /\ is_stepping(ctrl)
    THEN (1 .. ctrl.active_step.total_tiles) \ picked
    ELSE {}

AnyTile(i) ==
    /\ i \in Pending
    /\ ctrl' = [ctrl EXCEPT !.active_step =
                    [process_tile(ctrl.active_step, ctrl.active_step.tile_queue[i])
                        EXCEPT !.next_tile = ctrl.active_step.next_tile + 1]]
    /\ picked' = picked \cup {i}
    /\ last' = Called("process_tile", i, AsU32(0))
    /\ UNCHANGED <<field, mark>>

FinalizeAny ==
    /\ ctrl # Null
    /\ is_stepping(ctrl)
    /\ picked = 1 .. ctrl.active_step.total_tiles
    /\ ctrl' = finalize_step(ctrl)
    /\ picked' = {}
    /\ last' = Called("finalize_step", 1, AsU32(0))
    /\ UNCHANGED <<field, mark>>

NextAnyOrder ==
    \/ \E p \in Patterns : HostFill(p)
    \/ va_sc_begin_step
    \/ \E i \in Pending : AnyTile(i)
    \/ FinalizeAny

SpecAnyOrder == InitController /\ [][NextAnyOrder]_vars

(***************************************************************************)
(* Properties.                                                             *)
(***************************************************************************)
Stepping == ctrl # Null /\ is_stepping(ctrl)
Idle == ctrl # Null /\ ~is_stepping(ctrl)

\* The handle is live before and after the transition (it was not destroyed).
FieldKept == field # Null /\ field' # Null
CtrlKept == ctrl # Null /\ ctrl' # Null

\* The controller as it was when the step in progress (or the last step) began.
BeginCtrl == [field |-> mark.begin, active_step |-> None]

\* C1: field_step and field_step_fused leave the exact integer sum of all
\* cells unchanged (the sum equals the sum of the cells the caller wrote).
C1_FieldMassConserved ==
    field # Null => Mass(field.cells) = mark.mass

\* C2: whenever the controller is Idle, the exact integer sum of field.cells
\* equals the sum before the first step.
C2_ControllerMassConserved ==
    Idle => Mass(ctrl.field.cells) = mark.mass

\* C3: the generation increases by exactly 1 per completed step and changes at
\* no other time: field_step and field_step_fused add 1; under the controller
\* it stays at N = target_generation - 1 while Stepping and through every tick
\* that returns 'more work', and becomes N + 1 in the transition that finalizes.
C3_GenerationStep ==
    [][/\ FieldKept =>
            field'.generation =
                IF last'.op \in {"va_field_step", "field_step_fused"}
                THEN field.generation + 1 ELSE field.generation
       /\ CtrlKept =>
            /\ is_stepping(ctrl') =>
                  /\ ctrl'.field.generation = ctrl.field.generation
                  /\ ctrl'.active_step.target_generation = ctrl'.field.generation + 1
            /\ ctrl'.field.generation =
                  IF (is_stepping(ctrl) /\ ~is_stepping(ctrl'))
                     \/ last'.op = "va_sc_step_blocking"
                  THEN ctrl.field.generation + 1 ELSE ctrl.field.generation
            /\ (last'.op = "va_sc_tick" /\ last'.ret = 0) =>
                  /\ is_stepping(ctrl')
                  /\ ctrl'.field.generation = ctrl.field.generation
      ]_vars

C3_Witness ==
    /\ Idle
    /\ ctrl.field.generation = mark.begin.generation + 1
    /\ ctrl.field.generation > 1
    /\ last.op = "va_sc_tick"
    /\ last.ret = 1

\* C4: begin_step while Stepping returns the error (Err; 1 through
\* va_sc_begin_step) and changes nothing of the step or of the field.
C4_BeginWhileStepping ==
    [][(Stepping /\ last'.op = "va_sc_begin_step") =>
          /\ last'.ret = 1
          /\ ~begin_step(ctrl).ok
          /\ ctrl' = ctrl
          /\ field' = field
      ]_vars

C4_Witness ==
    /\ Stepping
    /\ ctrl.active_step.next_tile > 0
    /\ ctrl.active_step.target # ctrl.active_step.source
    /\ last.op = "va_sc_begin_step"
    /\ last.ret = 1

TickOps == {"va_sc_tick", "StepController::tick"}

\* C5: tick called while Idle returns a value that is neither 'completed'
\* (1 / true) nor 'more work' (0 / false), and leaves the controller as it is.
C5_TickWhileIdle_AnyLevel ==
    [][(Idle /\ last'.op \in TickOps) => (last'.ret \notin {0, 1} /\ ctrl' = ctrl)]_vars

\* C6: a va_sc_field_set issued while Stepping changes nothing (field cells,
\* source, target); the cells committed at finalize are those of the step run
\* on the field as it was at begin_step; when Idle, set takes effect.
C6_MutationBarrier ==
    [][/\ (Stepping /\ last'.op = "va_sc_field_set") => ctrl' = ctrl
       /\ (Stepping /\ CtrlKept /\ ~is_stepping(ctrl')) =>
             ctrl'.field.cells = step_blocking(BeginCtrl).field.cells
       /\ Idle =>
             \A c \in SetCoords, v \in SetValues :
                 va_sc_field_set(c[1], c[2], c[3], AsU32(v)) =>
                     field_get(ctrl'.field, c[1], c[2], c[3]) =
                         IF field_in_bounds(ctrl.field, c[1], c[2], c[3])
                         THEN AsU32(v) ELSE AsU32(0)
      ]_vars

C6_Witness ==
    /\ Stepping
    /\ ctrl.active_step.next_tile > 0
    /\ last.op = "va_sc_field_set"
    /\ field_in_bounds(ctrl.field, 1, 1, 0)

\* C7: while Stepping, the field holds the generation-N cells (get returns the
\* value of the field as it was at begin_step); a tick that returns 'more work'
\* leaves the field as it is; the tick that finalizes installs the target with
\* every remaining tile processed, sets the generation to N + 1 and drops the step.
C7_AtomicPublication ==
    [][CtrlKept =>
          /\ is_stepping(ctrl') =>
                /\ ctrl'.field = mark'.begin
                /\ \A c \in SetCoords :
                      field_get(ctrl'.field, c[1], c[2], c[3]) =
                          field_get(mark'.begin, c[1], c[2], c[3])
          /\ (is_stepping(ctrl) /\ last'.op \in TickOps) =>
                IF is_stepping(ctrl')
                THEN ctrl'.field = ctrl.field
                ELSE /\ ctrl'.field.cells = tick(ctrl, Unreached(ctrl)).ctrl.field.cells
                     /\ ctrl'.field.generation = ctrl.active_step.target_generation
                     /\ ctrl'.field.generation = ctrl.field.generation + 1
      ]_vars

C7_Witness ==
    /\ Stepping
    /\ ctrl.active_step.next_tile > 0
    /\ ctrl.active_step.target # ctrl.active_step.source
    /\ ctrl.field.cells = ctrl.active_step.source
    /\ last.op = "va_sc_tick"
    /\ last.ret = 0

\* C8: the step completed by begin_step and ticks, whatever the split of the
\* tile queue across ticks, leaves the same cells and the same generation as
\* step_blocking on the field as it was at begin_step.
C8_BlockingEqualsTicking ==
    [][(Stepping /\ last'.op \in TickOps /\ ~is_stepping(ctrl')) =>
          ctrl'.field = step_blocking(BeginCtrl).field
      ]_vars

C8_Witness ==
    /\ Idle
    /\ ctrl.field.width > 2 * TILE_SIZE
    /\ ctrl.field.generation = mark.begin.generation + 1
    /\ ctrl.field.cells # mark.begin.cells
    /\ last.op = "va_sc_tick"
    /\ last.ret = 1

\* C9: with every tile of the queue processed once, in any order, the target
\* is the target that Morton order produces, and so are the committed cells.
C9_TileOrderIndependent ==
    /\ (Stepping /\ picked = 1 .. ctrl.active_step.total_tiles) =>
           ctrl.active_step.target = step_blocking(BeginCtrl).field.cells
    /\ (Idle /\ last.op = "finalize_step") =>
           ctrl.field = step_blocking(BeginCtrl).field

C9_Witness ==
    /\ Stepping
    /\ ctrl.active_step.total_tiles > 2
    /\ picked = 1 .. ctrl.active_step.total_tiles
    /\ last.op = "process_tile"
    /\ last.ret = 1
    /\ ctrl.active_step.target # ctrl.active_step.source

\* The target indices that processing queue position i writes, as owner and as neighbour.
OwnerWrites(step, i) == TileRun(step, step.tile_queue[i], step.source).owner
NbrWrites(step, i) == TileRun(step, step.tile_queue[i], step.source).nbr
Writes(step, i) == OwnerWrites(step, i) \cup NbrWrites(step, i)

\* C10 as stated: no two distinct tiles write the same target cell.
C10_DisjointWriteSets ==
    Stepping =>
        \A i, j \in 1 .. ctrl.active_step.total_tiles :
            i # j => Writes(ctrl.active_step, i) \cap Writes(ctrl.active_step, j) = {}

\* Each cell is written as owner by exactly one tile of the step, and a cell a
\* tile writes without owning it lies on the low face of its own tile.
OwnersPartition(step) ==
    LET T      == 1 .. step.total_tiles
        owners == [i \in T |-> OwnerWrites(step, i)]
        nbrs   == [i \in T |-> NbrWrites(step, i)]
    IN  /\ \A idx \in DOMAIN step.target :
              Cardinality({i \in T : idx \in owners[i]}) = 1
        /\ \A i \in T : \A idx \in nbrs[i] \ owners[i] :
              \/ (idx % step.width) % TILE_SIZE = 0
              \/ ((idx \div step.width) % step.height) % TILE_SIZE = 0
              \/ (idx \div (step.width * step.height)) % TILE_SIZE = 0

\* C10 amended: each cell of target is written as owner (through idx_a) by the
\* processing of exactly one tile; another tile writes it only as the neighbour
\* end (idx_b) of a pair that straddles the tile boundary, which is a cell at
\* the low face of its own tile. The tiles and dimensions that fix these write
\* sets are set by begin_step and stay as they are for the whole step.
C10_DisjointOwners ==
    [][/\ (last'.op = "va_sc_begin_step" /\ last'.ret = 0) =>
             (is_stepping(ctrl') /\ OwnersPartition(ctrl'.active_step))
       /\ (Stepping /\ CtrlKept /\ is_stepping(ctrl')) =>
             /\ ctrl'.active_step.tile_queue = ctrl.active_step.tile_queue
             /\ ctrl'.active_step.total_tiles = ctrl.active_step.total_tiles
             /\ ctrl'.active_step.source = ctrl.active_step.source
             /\ ctrl'.active_step.width = ctrl.active_step.width
             /\ ctrl'.active_step.height = ctrl.active_step.height
             /\ ctrl'.active_step.depth = ctrl.active_step.depth
      ]_vars

C10_Witness ==
    /\ Stepping
    /\ ctrl.active_step.next_tile > 0
    /\ \E i, j \in 1 .. ctrl.active_step.total_tiles :
          /\ i # j
          /\ Writes(ctrl.active_step, i) \cap Writes(ctrl.active_step, j) # {}

\* A field, and a controller, constructed anew and given the cells of f by set.
FreshField(f) ==
    [create_field(f.width, f.height, f.depth, f.diffusion_rate) EXCEPT !.cells = f.cells]
FreshCtrl(f) ==
    [StepController_new(f.width, f.height, f.depth, f.diffusion_rate)
        EXCEPT !.field.cells = f.cells]

\* C11: the cells a step leaves are those the same stepper leaves on a newly
\* constructed field with the same cells, dimensions and rate, whatever steps
\* came before and however the ticks split the step; and a controller that
\* completed a step differs from a newly constructed one by cells and
\* generation only (no accumulator, cursor or clock is kept).
C11_Deterministic ==
    [][/\ (FieldKept /\ last'.op = "va_field_step") =>
             field'.cells = field_step(FreshField(field)).cells
       /\ (FieldKept /\ last'.op = "field_step_fused") =>
             field'.cells = field_step_fused(FreshField(field)).cells
       /\ (CtrlKept /\ ~is_stepping(ctrl')
              /\ ctrl'.field.generation = ctrl.field.generation + 1) =>
             /\ ctrl'.field.cells = step_blocking(FreshCtrl(mark'.begin)).field.cells
             /\ ctrl' = [FreshCtrl(ctrl'.field) EXCEPT
                            !.field.generation = ctrl'.field.generation]
      ]_vars

C11_Witness ==
    /\ Idle
    /\ mark.begin.generation = 1
    /\ ctrl.field.generation = 2
    /\ ctrl.field.cells # mark.begin.cells
    /\ last.op = "va_sc_tick"
    /\ last.ret = 1

\* The step with the tiles of queue positions next_tile + 1 .. n processed whole, in order.
RECURSIVE ProcessedThrough(_, _)
ProcessedThrough(step, n) ==
    IF step.next_tile >= n THEN step
    ELSE ProcessedThrough(
             [process_tile(step, step.tile_queue[step.next_tile + 1])
                 EXCEPT !.next_tile = step.next_tile + 1], n)

\* C12: a tick called while Stepping, whatever its budget (a deadline already
\* passed included), either finalizes (returns 'completed', Idle) or leaves the
\* step with at least one more tile processed whole; so the k-th tick of a step
\* finds at least k - 1 tiles processed, and the tick after total_tiles ticks,
\* at the latest, finalizes.
C12_TickProgress ==
    [][(Stepping /\ last'.op \in TickOps) =>
          /\ mark.ticks <= ctrl.active_step.next_tile
          /\ ctrl.active_step.next_tile <= ctrl.active_step.total_tiles
          /\ IF is_stepping(ctrl')
             THEN /\ last'.ret = 0
                  /\ ctrl.active_step.next_tile < ctrl.active_step.total_tiles
                  /\ ctrl'.active_step.next_tile > ctrl.active_step.next_tile
                  /\ ctrl'.active_step =
                        ProcessedThrough(ctrl.active_step, ctrl'.active_step.next_tile)
                  /\ mark'.ticks = mark.ticks + 1
             ELSE /\ last'.ret = 1
                  /\ ctrl'.field.cells =
                        ProcessedThrough(ctrl.active_step, ctrl.active_step.total_tiles).target
          /\ mark.ticks = ctrl.active_step.total_tiles => ~is_stepping(ctrl')
      ]_vars

C12_Witness ==
    /\ Stepping
    /\ ctrl.active_step.total_tiles = 3
    /\ ctrl.active_step.next_tile = 3
    /\ mark.ticks = 3
    /\ ctrl.active_step.target # ctrl.active_step.source
    /\ last.op = "va_sc_tick"
    /\ last.ret = 0

\* A u32 that is the cast of a negative i64.  The cells the host writes are at
\* most MaxCell and a step is taken only from such cells, so the exact value of
\* a cell after a step (its value before minus the net of its flows) is far
\* below 2^31 in size: the committed u32 lies in [2^31, 2^32) exactly when the
\* exact value was negative and the cast wrapped it.
WrappedNegative(c) == c[1] >= Half \div 2

\* C13: no committed cell value, of a Field or of a controller's field, is a
\* negative exact value wrapped into u32.
C13_NoWrappedCommit ==
    /\ field # Null => \A i \in DOMAIN field.cells : ~WrappedNegative(field.cells[i])
    /\ ctrl # Null => \A i \in DOMAIN ctrl.field.cells : ~WrappedNegative(ctrl.field.cells[i])

AllZero(cells) == \A i \in DOMAIN cells : cells[i] = AsU32(0)

\* C14: a step of an all-zero field, by the sequential, the fused or the tiled
\* stepper, leaves every cell 0 (the target stays all-zero after every tile)
\* and advances the generation by one.
C14_ZeroFixedPoint ==
    [][/\ (FieldKept /\ AllZero(field.cells)
              /\ last'.op \in {"va_field_step", "field_step_fused"}) =>
             /\ AllZero(field'.cells)
             /\ field'.generation = field.generation + 1
       /\ (CtrlKept /\ AllZero(ctrl.field.cells)
              /\ last'.op \in TickOps \cup {"va_sc_begin_step", "va_sc_step_blocking"}) =>
             /\ AllZero(ctrl'.field.cells)
             /\ is_stepping(ctrl') => AllZero(ctrl'.active_step.target)
             /\ (is_stepping(ctrl) \/ last'.op = "va_sc_step_blocking") =>
                   (~is_stepping(ctrl') =>
                        ctrl'.field.generation = ctrl.field.generation + 1)
      ]_vars

C14_Witness ==
    /\ Idle
    /\ ctrl.field.width > 2 * TILE_SIZE
    /\ AllZero(ctrl.field.cells)
    /\ ctrl.field.generation = 2
    /\ last.op = "va_sc_tick"
    /\ last.ret = 1

\* Some component of c is below 0 or at or above the matching dimension of f.
OutOfBounds(f, c) ==
    \/ c[1] < 0 \/ c[1] >= f.width
    \/ c[2] < 0 \/ c[2] >= f.height
    \/ c[3] < 0 \/ c[3] >= f.depth

Coords(f) == (0 .. f.width - 1) \X (0 .. f.height - 1) \X (0 .. f.depth - 1)

LinearIndex(f, c) == (((c[3] * f.height) + c[2]) * f.width) + c[1]

\* The indices field_step and field_step_fused read and write in one axis pass.
PairIndices(f, coords, dx, dy, dz) ==
    UNION {{field_index_of(f, coords[k][1], coords[k][2], coords[k][3]),
            field_index_of(f, coords[k][1] + dx, coords[k][2] + dy, coords[k][3] + dz)} :
           k \in DOMAIN coords}

StepIndices(f) ==
    PairIndices(f, XCoords(f), 1, 0, 0) \cup PairIndices(f, YCoords(f), 0, 1, 0)
        \cup PairIndices(f, ZCoords(f), 0, 0, 1)

\* The in-bounds coordinates of f map one-to-one into [0, w*h*d), the cells are
\* indexed by exactly that range, and the steppers stay inside it.
IndexSafe(f) ==
    LET n == f.width * f.height * f.depth
    IN  /\ DOMAIN f.cells = 0 .. n - 1
        /\ \A c \in Coords(f) :
              /\ field_index_of(f, c[1], c[2], c[3]) = LinearIndex(f, c)
              /\ LinearIndex(f, c) \in 0 .. n - 1
        /\ Cardinality({LinearIndex(f, c) : c \in Coords(f)}) = n
        /\ StepIndices(f) \subseteq 0 .. n - 1

\* The tiles of a step read and write source and target inside [0, w*h*d).
StepIndexSafe(step) ==
    LET n == step.width * step.height * step.depth
    IN  /\ DOMAIN step.source = 0 .. n - 1
        /\ DOMAIN step.target = 0 .. n - 1
        /\ \A i \in 1 .. step.total_tiles : Writes(step, i) \subseteq 0 .. n - 1

\* C15: get at out-of-bounds coordinates returns 0 and set there changes no
\* cell; set at in-bounds coordinates writes the cell at (z*h + y)*w + x and no
\* other; in-bounds coordinates have distinct indices in [0, w*h*d), and the
\* sequential, fused and tiled steppers index cells, source and target only
\* inside [0, w*h*d).
C15_BoundsSafety ==
    [][/\ FieldKept =>
            /\ \A c \in SetCoords :
                  /\ (OutOfBounds(field, c) /\ va_field_get(c[1], c[2], c[3])) =>
                        last'.val = AsU32(0)
                  /\ \A v \in SetValues : va_field_set(c[1], c[2], c[3], AsU32(v)) =>
                        field'.cells =
                            IF OutOfBounds(field, c) THEN field.cells
                            ELSE [field.cells EXCEPT ![LinearIndex(field, c)] = AsU32(v)]
            /\ last'.op \in {"fill", "va_field_set", "va_field_step", "field_step_fused"} =>
                  IndexSafe(field)
       /\ CtrlKept =>
            /\ \A c \in SetCoords :
                  /\ (OutOfBounds(ctrl.field, c) /\ va_sc_field_get(c[1], c[2], c[3])) =>
                        last'.val = AsU32(0)
                  /\ \A v \in SetValues :
                        (~is_stepping(ctrl) /\ va_sc_field_set(c[1], c[2], c[3], AsU32(v))) =>
                            ctrl'.field.cells =
                                IF OutOfBounds(ctrl.field, c) THEN ctrl.field.cells
                                ELSE [ctrl.field.cells EXCEPT
                                         ![LinearIndex(ctrl.field, c)] = AsU32(v)]
            /\ last'.op \in {"fill", "va_sc_field_set"} => IndexSafe(ctrl.field)
            /\ (last'.op = "va_sc_begin_step" /\ last'.ret = 0) =>
                  StepIndexSafe(ctrl'.active_step)
      ]_vars

C15_Witness ==
    /\ Idle
    /\ OutOfBounds(ctrl.field, <<1, 1, 0>>)
    /\ ~AllZero(ctrl.field.cells)
    /\ ctrl.field.cells = mark.begin.cells
    /\ last.op = "va_sc_field_set"

\* The handle the constructor call returned, and whether a dimension it was given is <= 0.
Created == IF mark.kind = "field" THEN field ELSE ctrl
BadDim == \E k \in 1 .. 3 : mark.dims[k] <= 0

\* C16: va_create_field and va_create_step_controller return null exactly when
\* a dimension is <= 0, and then no object exists; otherwise the handle is
\* non-null, with the dimensions asked for, generation 0 and, for a controller,
\* no active step.
C16_NullIffBadDim ==
    last.op = "create" =>
        /\ (Created = Null) <=> BadDim
        /\ BadDim => (field = Null /\ ctrl = Null)
        /\ (~BadDim /\ mark.kind = "field") =>
              /\ <<field.width, field.height, field.depth>> = mark.dims
              /\ field.generation = 0
        /\ (~BadDim /\ mark.kind = "controller") =>
              /\ <<ctrl.field.width, ctrl.field.height, ctrl.field.depth>> = mark.dims
              /\ ctrl.field.generation = 0
              /\ ~is_stepping(ctrl)

C16_Witness ==
    /\ last.op = "create"
    /\ mark.kind = "controller"
    /\ mark.dims[2] < 0
    /\ ctrl = Null
    /\ field = Null

FieldEntryPoints ==
    {"va_destroy_field", "va_field_set", "va_field_get", "va_field_step",
     "va_field_get_generation"}
ControllerEntryPoints ==
    {"va_destroy_step_controller", "va_sc_field_set", "va_sc_field_get",
     "va_sc_field_get_generation", "va_sc_begin_step", "va_sc_tick", "va_sc_is_stepping",
     "va_sc_step_blocking"}

\* C17: an entry point called with a null handle changes nothing (the handle
\* stays null and the other object is as before) and returns its sentinel:
\* 0 from get and get_generation, -1 from va_sc_begin_step, va_sc_tick and
\* va_sc_is_stepping.
C17_NullHandleSafe ==
    [][/\ (field = Null /\ last'.op \in FieldEntryPoints) =>
             /\ field' = Null /\ ctrl' = ctrl /\ mark' = mark
             /\ last'.op = "va_field_get" => last'.val = AsU32(0)
             /\ last'.op = "va_field_get_generation" => last'.ret = 0
       /\ (ctrl = Null /\ last'.op \in ControllerEntryPoints) =>
             /\ ctrl' = Null /\ field' = field /\ mark' = mark
             /\ last'.op = "va_sc_field_get" => last'.val = AsU32(0)
             /\ last'.op = "va_sc_field_get_generation" => last'.ret = 0
             /\ last'.op \in {"va_sc_begin_step", "va_sc_tick", "va_sc_is_stepping"} =>
                   last'.ret = -1
      ]_vars

C17_Witness ==
    /\ ctrl = Null
    /\ field # Null
    /\ ~AllZero(field.cells)
    /\ field.generation > 0
    /\ last.op = "va_sc_is_stepping"
    /\ last.ret = -1

\* C18: the cells after va_field_step are the cells field_step_fused produces
\* from the same field.
C18_FieldStepIsFused ==
    [][(FieldKept /\ last'.op = "va_field_step") =>
          field'.cells = field_step_fused(field).cells
      ]_vars

\* The field behind the handle the constructor returned.
CreatedField == IF mark.kind = "field" THEN field ELSE ctrl.field

PendingMirrors ==
    UNION {TileRun(ctrl.active_step, ctrl.active_step.tile_queue[i],
                   ctrl.active_step.target).mirror : i \in Pending}

\* C20: each boundary-mirror invocation changes the owner's target cell by
\* -1, 0 or +1, never takes it below 0 (an owner at 0 does not become
\* 2^32 - 1) and never wraps it.
C20_MirrorBounded ==
    Stepping =>
        \A m \in PendingMirrors :
            /\ m.flow \in {-1, 0, 1}
            /\ ~m.wrapped
            /\ ~m.to_max

C20_Witness ==
    /\ Stepping
    /\ picked # {}
    /\ ctrl.active_step.target # ctrl.active_step.source
    /\ \E m \in PendingMirrors : m.owner_zero /\ m.biased

(***************************************************************************)
(* field.rs, rotational symmetry of the fused stepper: a cube with a       *)
(* centred 2x2x2 block is stepped twice as it is (field) and twice with    *)
(* its X and Y axes swapped (mark), and the second result is swapped back. *)
(***************************************************************************)
CubeSizes == {4, 8}
CubeRates == {0, 1, 2, 3}
CubeValues == {1000, 12345, 30000, 32767}
Twice == 2
Tolerance == 8

\* create_centered_cube_field on an n x n x n field (the source fixes n = 8).
create_centered_cube_field(n, diffusion_rate, value) ==
    LET f      == create_field(n, n, n, diffusion_rate)
        centre == {n \div 2 - 1, n \div 2}
    IN  [f EXCEPT !.cells =
            [i \in DOMAIN f.cells |->
                IF /\ (i % n) \in centre
                   /\ ((i \div n) % n) \in centre
                   /\ (i \div (n * n)) \in centre
                THEN AsU32(value) ELSE f.cells[i]]]

\* flipped(y, x, z) = field(x, y, z), on a field of dimensions (height, width, depth).
flip_axes_xyz_to_yxz(f) ==
    LET flipped == create_field(f.height, f.width, f.depth, f.diffusion_rate)
    IN  [flipped EXCEPT !.cells =
            [i \in DOMAIN flipped.cells |->
                field_get(f, (i \div flipped.width) % flipped.height,
                             i % flipped.width,
                             i \div (flipped.width * flipped.height))]]

InitSymmetry ==
    \E n \in CubeSizes, r \in CubeRates, v \in CubeValues :
        /\ field = create_centered_cube_field(n, r, v)
        /\ mark = flip_axes_xyz_to_yxz(create_centered_cube_field(n, r, v))
        /\ ctrl = Null
        /\ last = Called("create", 0, AsU32(0))
        /\ picked = {}

StepXYZ ==
    /\ field.generation < Twice
    /\ field' = field_step_fused(field)
    /\ last' = Called("field_step_fused", 0, AsU32(0))
    /\ UNCHANGED <<ctrl, mark, picked>>

StepYXZ ==
    /\ mark.generation < Twice
    /\ mark' = field_step_fused(mark)
    /\ last' = Called("field_step_fused", 1, AsU32(0))
    /\ UNCHANGED <<field, ctrl, picked>>

NextSymmetry == StepXYZ \/ StepYXZ

SpecSymmetry == InitSymmetry /\ [][NextSymmetry]_vars

\* |a - b| <= tol for two u32 cells.
WithinTolerance(a, b, tol) ==
    \/ a[1] = b[1] /\ Abs(a[2] - b[2]) <= tol
    \/ a[1] = b[1] + 1 /\ a[2] + Half - b[2] <= tol
    \/ b[1] = a[1] + 1 /\ b[2] + Half - a[2] <= tol

BothSteppedTwice == field.generation = Twice /\ mark.generation = Twice

\* C21: on a cube with a centred 2x2x2 block of a large value, two fused
\* steps of the field and two fused steps of the X/Y-swapped field, swapped
\* back, differ by at most 8 units in every cell.
C21_RotationalSymmetry ==
    BothSteppedTwice =>
        \A i \in DOMAIN field.cells :
            WithinTolerance(field.cells[i], flip_axes_xyz_to_yxz(mark).cells[i], Tolerance)

C21_Witness ==
    /\ BothSteppedTwice
    /\ field.width = 8
    /\ field.diffusion_rate = 3
    /\ \E i \in DOMAIN field.cells :
           field.cells[i] # flip_axes_xyz_to_yxz(mark).cells[i]

MaxDrift == 25

\* The transition commits a step of the controller.
Commits ==
    /\ CtrlKept
    /\ ~is_stepping(ctrl')
    /\ ctrl'.field.generation = ctrl.field.generation + 1

\* C22: the cells a tiled step commits are within 25 units, cell by cell, of
\* the cells the fused stepper leaves on the field as it was when the step
\* began, and the two results have the same total mass.
C22_BoundedDriftFromFused ==
    [][Commits =>
          LET fused == field_step_fused(mark'.begin)
          IN  /\ \A i \in DOMAIN fused.cells :
                    WithinTolerance(ctrl'.field.cells[i], fused.cells[i], MaxDrift)
              /\ Mass(ctrl'.field.cells) = Mass(fused.cells)
      ]_vars

\* C23: step_blocking on a newly created controller, no cell set, leaves
\* every cell >= 1; and an in-bounds cell of a newly created field or
\* controller, not set by the caller, reads 1 through get.
C23_MinimumQuantum ==
    [][/\ (last.op = "create" /\ CtrlKept /\ last'.op = "va_sc_step_blocking") =>
             \A i \in DOMAIN ctrl'.field.cells : ctrl'.field.cells[i] # AsU32(0)
       /\ (last.op = "create" /\ Created # Null) =>
             \A c \in SetCoords :
                 field_in_bounds(CreatedField, c[1], c[2], c[3]) =>
                     field_get(CreatedField, c[1], c[2], c[3]) = AsU32(1)
      ]_vars

(***************************************************************************)
(* The flow kernel on its own: compute_flow called MaxCalls times on one   *)
(* accumulator, as a stepper calls it pair after pair.  mark holds the     *)
(* arguments of the last call, last its result.                            *)
(***************************************************************************)
MaxCalls == 3
Gradients == {-32767, -12345, -14, -7, -1, 0, 1, 7, 14, 12345, 32767}
Conductivities == {65535, 32768}

InitKernel ==
    \E r \in Rates :
        /\ field = Null
        /\ ctrl = Null
        /\ picked = {}
        /\ mark = [gradient |-> 0, conductivity |-> 0, divisor |-> Divisor(r),
                   acc |-> 0, calls |-> 0]
        /\ last = Called("create", 0, 0)

\* One call; last.ret is the flow returned and last.val the accumulator left.
Kernel(gradient, conductivity) ==
    /\ mark.calls < MaxCalls
    /\ LET r == compute_flow(gradient, conductivity, mark.divisor, last.val)
       IN  last' = Called("compute_flow", r.flow, r.acc)
    /\ mark' = [gradient |-> gradient, conductivity |-> conductivity,
                divisor |-> mark.divisor, acc |-> last.val, calls |-> mark.calls + 1]
    /\ UNCHANGED <<field, ctrl, picked>>

NextKernel == \E g \in Gradients, c \in Conductivities : Kernel(g, c)

SpecKernel == InitKernel /\ [][NextKernel]_vars

\* q is product / divisor rounded toward zero, and m the size of what is left over.
IsTruncatedQuotient(q, m, product, divisor) ==
    /\ m >= 0
    /\ m < divisor
    /\ LET whole == product - (IF product >= 0 THEN m ELSE -m)
       IN  whole % divisor = 0 /\ whole \div divisor = q

\* C24: compute_flow adds |product rem divisor| to the accumulator; if that
\* reaches the divisor it takes the divisor off once and returns the truncated
\* quotient plus 1 (gradient >= 0) or minus 1 (gradient < 0), otherwise the
\* truncated quotient; the flow is within 1 of the truncated quotient and never
\* off it against the sign of the gradient.
C24_FlowKernelRule ==
    last.op = "compute_flow" =>
        \E q \in last.ret - 1 .. last.ret + 1, m \in {last.val - mark.acc, last.val - mark.acc + mark.divisor} :
            /\ IsTruncatedQuotient(q, m, mark.gradient * mark.conductivity, mark.divisor)
            /\ IF mark.acc + m >= mark.divisor
               THEN /\ last.val = mark.acc + m - mark.divisor
                    /\ last.ret = IF mark.gradient >= 0 THEN q + 1 ELSE q - 1
               ELSE /\ last.val = mark.acc + m
                    /\ last.ret = q
            /\ Abs(last.ret - q) <= 1
            /\ mark.gradient >= 0 => last.ret >= q
            /\ mark.gradient < 0 => last.ret <= q

C24_Witness ==
    /\ last.op = "compute_flow"
    /\ mark.gradient < 0
    /\ mark.acc > 0
    /\ last.val < mark.acc
    /\ last.ret = TruncDiv(mark.gradient * mark.conductivity, mark.divisor) - 1

\* C25: a successful begin_step leaves the controller Stepping with source and
\* target both equal to field.cells, the cursor at 0, target_generation one
\* above field.generation and the cached dimensions and rate those of the
\* field, and leaves the field as it was; source and target are separate
\* buffers: the tiles written to target change neither source nor field.cells.
C25_BeginStepSnapshot ==
    [][/\ (Idle /\ CtrlKept /\ last'.op = "va_sc_begin_step") =>
             /\ last'.ret = 0
             /\ is_stepping(ctrl')
             /\ ctrl'.field = ctrl.field
             /\ LET step == ctrl'.active_step
                IN  /\ step.source = ctrl.field.cells
                    /\ step.target = ctrl.field.cells
                    /\ step.next_tile = 0
                    /\ step.target_generation = ctrl.field.generation + 1
                    /\ <<step.width, step.height, step.depth>> =
                          <<ctrl.field.width, ctrl.field.height, ctrl.field.depth>>
                    /\ step.diffusion_rate = ctrl.field.diffusion_rate
       /\ (Stepping /\ CtrlKept /\ is_stepping(ctrl')) =>
             /\ ctrl'.active_step.source = ctrl.active_step.source
             /\ ctrl'.active_step.source = ctrl'.field.cells
      ]_vars

C25_Witness ==
    /\ Stepping
    /\ last.op = "va_sc_begin_step"
    /\ last.ret = 0
    /\ ctrl.field.generation = 1
    /\ ~AllZero(ctrl.field.cells)
    /\ ctrl.active_step.next_tile = 0

(***************************************************************************)
(* begin_step on controllers of many shapes: the tile queue it builds.     *)
(***************************************************************************)
QueueDims ==
    {<<1, 1, 1>>, <<16, 1, 1>>, <<17, 1, 1>>, <<17, 17, 1>>, <<17, 17, 17>>,
     <<33, 17, 1>>, <<1, 33, 17>>, <<49, 1, 33>>, <<33, 33, 2>>, <<1, 17, 49>>,
     <<65, 1, 1>>, <<97, 17, 1>>, <<1, 4081, 1>>, <<4096, 1, 1>>}

InitQueue == Create(QueueDims) /\ ctrl # Null

NextQueue ==
    \/ va_sc_begin_step
    \/ va_sc_is_stepping
    \/ va_sc_field_get_generation
    \/ va_destroy_step_controller

SpecQueue == InitQueue /\ [][NextQueue]_vars

\* ceil(dim / TILE_SIZE)
TilesAlong(dim) == (dim + TILE_SIZE - 1) \div TILE_SIZE

TileCode(t) == morton_encode(t.tx, t.ty, t.tz)

\* C26: the tile queue built by begin_step holds every tile coordinate
\* (tx, ty, tz) below (ceil(w/16), ceil(h/16), ceil(d/16)) exactly once, in
\* strictly increasing Morton code, and the Morton code is injective on them.
C26_TileQueueComplete ==
    Stepping =>
        LET step == ctrl.active_step
            q    == step.tile_queue
            all  == {[tx |-> tx, ty |-> ty, tz |-> tz] :
                        tx \in 0 .. TilesAlong(step.width) - 1,
                        ty \in 0 .. TilesAlong(step.height) - 1,
                        tz \in 0 .. TilesAlong(step.depth) - 1}
        IN  /\ Len(q) = Cardinality(all)
            /\ \A t \in all : Cardinality({i \in DOMAIN q : q[i] = t}) = 1
            /\ \A i \in 1 .. Len(q) - 1 : TileCode(q[i]) < TileCode(q[i + 1])
            /\ \A t, u \in all : TileCode(t) = TileCode(u) => t = u

\* The pairs of cells adjacent along X, Y or Z, as <<index of the cell with the
\* lower coordinate, index of its neighbour in the positive direction>>.
AdjacentPairs(step) ==
    LET coords == {<<x, y, z>> : x \in 0 .. step.width - 1, y \in 0 .. step.height - 1,
                                z \in 0 .. step.depth - 1}
        at(c)  == field_index(step, c[1], c[2], c[3])
    IN  {<<at(c), at(<<c[1] + 1, c[2], c[3]>>)>> : c \in {b \in coords : b[1] + 1 < step.width}}
        \cup
        {<<at(c), at(<<c[1], c[2] + 1, c[3]>>)>> : c \in {b \in coords : b[2] + 1 < step.height}}
        \cup
        {<<at(c), at(<<c[1], c[2], c[3] + 1>>)>> : c \in {b \in coords : b[3] + 1 < step.depth}}

\* Every interior contract of every tile of the queue, as <<queue position,
\* position in the tile's run, pair>>.
PairsProcessed(step) ==
    UNION {LET run == TileRun(step, step.tile_queue[i], step.source)
           IN  {<<i, k, run.pairs[k]>> : k \in DOMAIN run.pairs}
           : i \in 1 .. step.total_tiles}

\* The tiles (queue positions) that visit cell idx as owner.
OwnersOf(step, idx) == {i \in 1 .. step.total_tiles : idx \in OwnerWrites(step, i)}

\* C27: over the tiles of one step, every cell is visited as owner by exactly
\* one tile and every pair of cells adjacent along X, Y or Z is processed
\* exactly once, from the cell with the lower coordinate, pairs across a tile
\* boundary included; nothing else is processed as a pair.
C27_PairOwnership ==
    Stepping =>
        LET step == ctrl.active_step
            done == PairsProcessed(step)
        IN  /\ \A idx \in DOMAIN step.source : Cardinality(OwnersOf(step, idx)) = 1
            /\ \A p \in AdjacentPairs(step) : Cardinality({o \in done : o[3] = p}) = 1
            /\ \A o \in done : o[3] \in AdjacentPairs(step)

\* A complete step of several tiles in which a pair across a tile boundary was processed.
C27_Witness ==
    /\ Stepping
    /\ ctrl.active_step.total_tiles > 1
    /\ picked = 1 .. ctrl.active_step.total_tiles
    /\ ctrl.active_step.target # ctrl.active_step.source
    /\ \E o \in PairsProcessed(ctrl.active_step) :
           OwnersOf(ctrl.active_step, o[3][2]) # {o[1]}

\* The step as begin_step built it from the field the step in progress began on.
Begun == BeginStepBody(BeginCtrl).ctrl.active_step

\* C28: while Stepping, next_tile <= total_tiles and the step is the one
\* begin_step built with exactly the tiles tile_queue[0 .. next_tile) processed,
\* each once; the step is finalized only by a tick (or step_blocking) and only
\* with every tile of the queue processed exactly once.
C28_CursorDiscipline ==
    /\ [](Stepping =>
             /\ ctrl.active_step.next_tile <= ctrl.active_step.total_tiles
             /\ ctrl.active_step = ProcessedThrough(Begun, ctrl.active_step.next_tile))
    /\ [][(Stepping /\ CtrlKept /\ ~is_stepping(ctrl')) =>
             /\ last'.op \in TickOps \cup {"va_sc_step_blocking"}
             /\ ctrl'.field.cells = ProcessedThrough(Begun, Begun.total_tiles).target
         ]_vars

C28_Witness ==
    /\ Stepping
    /\ ctrl.active_step.total_tiles = 3
    /\ ctrl.active_step.next_tile = 2
    /\ last.op \in TickOps
    /\ ctrl.active_step.target # ProcessedThrough(Begun, 1).target

\* C29: whenever a tick called while Stepping returns 'more work', at least
\* one tile of the queue is still unprocessed when it returns.
C29_MoreWorkMeansTilesLeft ==
    [][(Stepping /\ last'.op \in TickOps /\ last'.ret = 0) =>
          ctrl'.active_step.next_tile < ctrl'.active_step.total_tiles
      ]_vars

\* C29, as the code has it: a tick that returns 'more work' has not finalized
\* (still Stepping, field untouched, cursor at most total_tiles) but may have
\* processed the last tile: a tick whose deadline has passed when its first
\* tile completes returns 'more work' whichever tile that was. A tick that
\* finds every tile processed works on no tile, commits the target as it
\* stands and returns 'completed'.
C29_MoreWorkMeansNotFinalized ==
    [][(Stepping /\ last'.op \in TickOps) =>
          /\ last'.ret \in {0, 1}
          /\ last'.ret = 0 =>
                /\ is_stepping(ctrl')
                /\ ctrl'.field = ctrl.field
                /\ ctrl'.active_step.next_tile <= ctrl'.active_step.total_tiles
          /\ (/\ ctrl.active_step.next_tile < ctrl.active_step.total_tiles
              /\ (va_sc_tick(0) \/ StepController_tick(0))) =>
                /\ last'.ret = 0
                /\ ctrl'.active_step.next_tile = ctrl.active_step.next_tile + 1
          /\ ctrl.active_step.next_tile = ctrl.active_step.total_tiles =>
                /\ last'.ret = 1
                /\ ~is_stepping(ctrl')
                /\ ctrl'.field.cells = ctrl.active_step.target
                /\ ctrl'.field.generation = ctrl.active_step.target_generation
      ]_vars

\* A tick of a one-tile step returned 'more work' with the tile processed.
C29_Witness ==
    /\ Stepping
    /\ last.op \in TickOps
    /\ last.ret = 0
    /\ ctrl.active_step.total_tiles = 1
    /\ ctrl.active_step.next_tile = 1
    /\ ctrl.active_step.target # ctrl.field.cells

\* C30: a tick called while Stepping returns 'completed' exactly when the
\* controller is Idle on return and 'more work' exactly when it is still
\* Stepping with the field (cells and generation) unchanged; the controller
\* becomes Stepping only by a successful begin_step, which always leaves it
\* Stepping, and stops Stepping only in a finalizing tick (one called by the
\* host or by step_blocking); va_sc_is_stepping reports that state.
C30_TickReturnAgrees ==
    [][/\ (Stepping /\ last'.op \in TickOps) =>
             /\ last'.ret = 1 <=> (ctrl' # Null /\ ~is_stepping(ctrl'))
             /\ last'.ret = 0 <=> (/\ ctrl' # Null
                                   /\ is_stepping(ctrl')
                                   /\ ctrl'.field.cells = ctrl.field.cells
                                   /\ ctrl'.field.generation = ctrl.field.generation)
       /\ (CtrlKept /\ ~is_stepping(ctrl) /\ is_stepping(ctrl')) =>
             (last'.op = "va_sc_begin_step" /\ last'.ret = 0)
       /\ (ctrl # Null /\ last'.op = "va_sc_begin_step" /\ last'.ret = 0) =>
             (~is_stepping(ctrl) /\ is_stepping(ctrl'))
       /\ (Stepping /\ CtrlKept /\ ~is_stepping(ctrl')) =>
             \/ last'.op \in TickOps /\ last'.ret = 1
             \/ last'.op = "va_sc_step_blocking"
       /\ (ctrl # Null /\ last'.op = "va_sc_is_stepping") =>
             last'.ret = IF is_stepping(ctrl) THEN 1 ELSE 0
      ]_vars

\* A host tick finalized a step that changed the cells.
C30_Witness ==
    /\ ctrl # Null
    /\ ~is_stepping(ctrl)
    /\ last.op = "va_sc_tick"
    /\ last.ret = 1
    /\ ctrl.field.generation = mark.begin.generation + 1
    /\ ctrl.field.cells # mark.begin.cells

\* a + b on u32 cells, wrapping.
U32Sum(a, b) == <<(a[1] + b[1] + ((a[2] + b[2]) \div Half)) % Half, (a[2] + b[2]) % Half>>

\* The tile the next claim of the step in progress would process.
PendingTile == ctrl.active_step.tile_queue[ctrl.active_step.next_tile + 1]

\* process_tile adds the same amounts and ends on the same accumulator
\* whatever the target holds: its flows depend on source alone.
FlowsFromSourceOnly(step, tile) ==
    LET onTarget == TileRun(step, tile, step.target)
        onSource == TileRun(step, tile, step.source)
    IN  /\ onTarget.acc = onSource.acc
        /\ \A i \in DOMAIN step.source :
              U32Sum(onTarget.cells[i], step.source[i]) = U32Sum(onSource.cells[i], step.target[i])

\* C31: from begin_step until finalize source holds the cells the step began
\* on, and no operation that leaves the controller Stepping (a tick, a get, a
\* rejected set, a rejected begin_step) changes it; the flows of the next tile
\* are computed from source values only, never from target.
C31_SnapshotFrozen ==
    /\ [](Stepping =>
             /\ ctrl.active_step.source = mark.begin.cells
             /\ ctrl.active_step.next_tile < ctrl.active_step.total_tiles =>
                   FlowsFromSourceOnly(ctrl.active_step, PendingTile))
    /\ [][(Stepping /\ CtrlKept /\ is_stepping(ctrl')) =>
             ctrl'.active_step.source = ctrl.active_step.source
         ]_vars

\* A begin_step was rejected in a step whose target already differs from source
\* and that has a tile left.
C31_Witness ==
    /\ Stepping
    /\ last.op = "va_sc_begin_step"
    /\ last.ret = 1
    /\ ctrl.active_step.target # ctrl.active_step.source
    /\ ctrl.active_step.next_tile < ctrl.active_step.total_tiles

\* The pairs <<idx_a, idx_b>> of one axis pass, in loop order.
AxisPairs(f, coords, dx, dy, dz) ==
    [k \in DOMAIN coords |->
        <<field_index_of(f, coords[k][1], coords[k][2], coords[k][3]),
          field_index_of(f, coords[k][1] + dx, coords[k][2] + dy, coords[k][3] + dz)>>]

\* The pairs of a fused step in the order the three loop nests visit them.
FusedPairs(f) ==
    AxisPairs(f, XCoords(f), 1, 0, 0) \o AxisPairs(f, YCoords(f), 0, 1, 0)
        \o AxisPairs(f, ZCoords(f), 0, 0, 1)

\* The flows of pairs[1 .. n], each from the pre-step values `pre` of its two
\* endpoints, with one accumulator started at 0 running through them.
RECURSIVE FlowsFrom(_, _, _, _)
FlowsFrom(f, pre, pairs, n) ==
    IF n = 0 THEN [flows |-> <<>>, acc |-> 0]
    ELSE LET before == FlowsFrom(f, pre, pairs, n - 1)
             r      == compute_flow(AsI64(pre[pairs[n][1]]) - AsI64(pre[pairs[n][2]]),
                                    f.conductivity, Divisor(f.diffusion_rate), before.acc)
         IN  [flows |-> Append(before.flows, r.flow), acc |-> r.acc]

RECURSIVE SumOver(_, _, _)
SumOver(flows, ks, upto) ==
    IF upto = 0 THEN 0
    ELSE SumOver(flows, ks, upto - 1) + (IF upto \in ks THEN flows[upto] ELSE 0)

\* What cell i gains in the step: the flows of the pairs in which it is the
\* neighbour minus the flows of the pairs it owns.
NetGain(pairs, flows, i) ==
    SumOver(flows, {k \in DOMAIN pairs : pairs[k][2] = i}, Len(pairs))
        - SumOver(flows, {k \in DOMAIN pairs : pairs[k][1] = i}, Len(pairs))

\* C32: a fused step commits, for every cell, its pre-step value minus the
\* flows of the pairs it owns plus the flows of the pairs in which it is the
\* neighbour, every flow computed from the pre-step values of both endpoints
\* with one accumulator running through the X, then Y, then Z pairs.
C32_FusedReadsPreStep ==
    [][(FieldKept /\ last'.op = "field_step_fused") =>
          LET pairs == FusedPairs(field)
              flows == FlowsFrom(field, field.cells, pairs, Len(pairs)).flows
          IN  \A i \in DOMAIN field.cells :
                /\ field'.cells[i][1] = 0
                /\ AsI64(field'.cells[i]) = AsI64(field.cells[i]) + NetGain(pairs, flows, i)
      ]_vars

\* The accumulator left by compute_flow called on gradients[1 .. n] in turn,
\* started at 0.
RECURSIVE AccAfter(_, _, _, _)
AccAfter(gradients, n, conductivity, divisor) ==
    IF n = 0 THEN 0
    ELSE compute_flow(gradients[n], conductivity, divisor,
                      AccAfter(gradients, n - 1, conductivity, divisor)).acc

\* The runs of up to MaxCalls non-zero gradients.
BiasingRuns == UNION {[1 .. n -> Gradients \ {0}] : n \in 1 .. MaxCalls}

C34_AccumulatorRange ==
    /\ last.val >= 0
    /\ last.val < mark.divisor
    /\ last.op = "compute_flow" =>
          LET added == mark.acc + Abs(TruncRem(mark.gradient * mark.conductivity, mark.divisor))
          IN  /\ added - last.val \in {0, mark.divisor}
              /\ added - last.val = mark.divisor <=> added >= mark.divisor

\* The third call of a run reached the divisor and took it off once.
C34_Witness ==
    /\ last.op = "compute_flow"
    /\ mark.calls = 3
    /\ mark.gradient > 0
    /\ mark.acc > 0
    /\ last.val = mark.acc
                   + Abs(TruncRem(mark.gradient * mark.conductivity, mark.divisor))
                   - mark.divisor

(***************************************************************************)
(* A run of compute_flow calls that share one accumulator started at 0,    *)
(* with one conductivity and one divisor.  mark keeps the running sums:    *)
(* flows is the sum of the flows returned, and quot * divisor + rem is the *)
(* sum of the products gradient * conductivity.                            *)
(***************************************************************************)
InitAccuracy ==
    \E r \in Rates, c \in Conductivities :
        /\ field = Null
        /\ ctrl = Null
        /\ picked = {}
        /\ mark = [conductivity |-> c, divisor |-> Divisor(r), calls |-> 0,
                   flows |-> 0, quot |-> 0, rem |-> 0, signs |-> {}]
        /\ last = Called("create", 0, 0)

Accumulate(gradient) ==
    /\ mark.calls < MaxCalls
    /\ LET r == compute_flow(gradient, mark.conductivity, mark.divisor, last.val)
       IN  /\ last' = Called("compute_flow", r.flow, r.acc)
           /\ mark' = [mark EXCEPT
                          !.calls = @ + 1,
                          !.flows = @ + r.flow,
                          !.quot  = @ + TruncDiv(gradient * mark.conductivity, mark.divisor),
                          !.rem   = @ + TruncRem(gradient * mark.conductivity, mark.divisor),
                          !.signs = @ \cup {IF gradient > 0 THEN 1
                                            ELSE IF gradient < 0 THEN -1 ELSE 0}]
    /\ UNCHANGED <<field, ctrl, picked>>

NextAccuracy == \E g \in Gradients : Accumulate(g)

SpecAccuracy == InitAccuracy /\ [][NextAccuracy]_vars

\* divisor * (sum of the flows - exact quotient of the summed products).
OffBy == ((mark.flows - mark.quot) * mark.divisor) - mark.rem

\* C35: the sum of the flows returned by calls sharing one accumulator
\* started at 0 is within 1 of the exact quotient
\* (sum of gradient * conductivity) / divisor.
C35_WithinOneOfExact ==
    /\ OffBy <= mark.divisor
    /\ -OffBy <= mark.divisor

\* C35, as the code has it: when no two gradients of the run have opposite
\* signs, the sum of the flows is short of the exact quotient in magnitude by
\* exactly remainder_acc / divisor, which is less than 1; in general every
\* single flow is less than 1 off its own exact quotient, so the sum is less
\* than the number of calls off.
C35_SameSignWithinOne ==
    /\ mark.signs \subseteq {0, 1} => OffBy = -last.val
    /\ mark.signs \subseteq {0, -1} => OffBy = last.val
    /\ last.val < mark.divisor
    /\ mark.calls > 0 =>
          /\ OffBy < mark.calls * mark.divisor
          /\ -OffBy < mark.calls * mark.divisor

\* Three calls with negative gradients, the accumulator having carried.
C35_Witness ==
    /\ mark.calls = 3
    /\ mark.signs = {-1}
    /\ mark.flows < mark.quot
    /\ last.val > 0
    /\ OffBy = last.val

\* The flows of pairs[1 .. n], each from the values `read` of its two
\* endpoints, the accumulator running on from acc0.
RECURSIVE AxisFlows(_, _, _, _, _, _)
AxisFlows(conductivity, divisor, read, pairs, n, acc0) ==
    IF n = 0 THEN [flows |-> <<>>, acc |-> acc0]
    ELSE LET before == AxisFlows(conductivity, divisor, read, pairs, n - 1, acc0)
             r      == compute_flow(AsI64(read[pairs[n][1]]) - AsI64(read[pairs[n][2]]),
                                    conductivity, divisor, before.acc)
         IN  [flows |-> Append(before.flows, r.flow), acc |-> r.acc]

\* The axis of a pair of a w x h x d grid, from the distance between its indices.
AxisOf(width, height, pair) ==
    IF pair[2] - pair[1] = 1 /\ width > 1 THEN "x"
    ELSE IF pair[2] - pair[1] = width /\ height > 1 THEN "y"
    ELSE "z"

\* What cell i loses through the pairs of one axis.
LossAlong(width, height, pairs, flows, axis, i) ==
    SumOver(flows, {k \in DOMAIN pairs : pairs[k][1] = i /\ AxisOf(width, height, pairs[k]) = axis},
            Len(pairs))
      - SumOver(flows, {k \in DOMAIN pairs : pairs[k][2] = i /\ AxisOf(width, height, pairs[k]) = axis},
                Len(pairs))

\* The pairs and flows of a fused step of f.
FusedRun(f) ==
    LET pairs == FusedPairs(f)
    IN  [pairs |-> pairs,
         flows |-> AxisFlows(f.conductivity, Divisor(f.diffusion_rate), f.cells,
                             pairs, Len(pairs), 0).flows]

\* The pairs and flows of a sequential step of f: each axis reads the cells
\* left by the axis before it.
SequentialRun(f) ==
    LET s0 == [cells |-> f.cells, acc |-> 0]
        sx == AxisPass(f, f.cells, s0, XCoords(f), 1, 0, 0)
        sy == AxisPass(f, sx.cells, sx, YCoords(f), 0, 1, 0)
        px == AxisPairs(f, XCoords(f), 1, 0, 0)
        py == AxisPairs(f, YCoords(f), 0, 1, 0)
        pz == AxisPairs(f, ZCoords(f), 0, 0, 1)
        d  == Divisor(f.diffusion_rate)
    IN  [pairs |-> px \o py \o pz,
         flows |-> AxisFlows(f.conductivity, d, f.cells, px, Len(px), 0).flows
                     \o AxisFlows(f.conductivity, d, sx.cells, py, Len(py), sx.acc).flows
                     \o AxisFlows(f.conductivity, d, sy.cells, pz, Len(pz), sy.acc).flows]

\* The pairs and flows of the tiles queue[1 .. n] of a tiled step: every tile
\* starts its own accumulator at 0 and reads source.
RECURSIVE TiledRun(_, _)
TiledRun(step, n) ==
    IF n = 0 THEN [pairs |-> <<>>, flows |-> <<>>]
    ELSE LET before == TiledRun(step, n - 1)
             pairs  == TileRun(step, step.tile_queue[n], step.source).pairs
         IN  [pairs |-> before.pairs \o pairs,
              flows |-> before.flows
                          \o AxisFlows(65535, Divisor(step.diffusion_rate), step.source,
                                       pairs, Len(pairs), 0).flows]

\* No cell loses more than a seventh of its start-of-step value along an axis.
LosesAtMostSeventh(width, height, pre, run) ==
    \A i \in DOMAIN pre, axis \in {"x", "y", "z"} :
        7 * LossAlong(width, height, run.pairs, run.flows, axis, i) <= AsI64(pre[i])

\* C36: in a step of any of the three steppers no cell loses, along one
\* axis, more than 1/7 of the value it had at the start of the step.
C36_StabilityClause ==
    [][/\ (FieldKept /\ last'.op = "field_step_fused") =>
              LosesAtMostSeventh(field.width, field.height, field.cells, FusedRun(field))
       /\ (FieldKept /\ last'.op = "va_field_step") =>
              LosesAtMostSeventh(field.width, field.height, field.cells, SequentialRun(field))
       /\ Commits =>
              LosesAtMostSeventh(mark'.begin.width, mark'.begin.height, mark'.begin.cells,
                                 TiledRun(BeginStepBody([field |-> mark'.begin,
                                                         active_step |-> None]).ctrl.active_step,
                                          Len(BeginStepBody([field |-> mark'.begin,
                                                             active_step |-> None]).ctrl.active_step.tile_queue)))
      ]_vars

\* C37: step_blocking called while Stepping starts no second step: it works
\* on from the target as it stands through the tiles not yet claimed and
\* finalizes, so the controller is Idle with the generation one above the
\* generation at the original begin_step and the cells of that one step;
\* called while Idle it performs exactly one full step and returns Idle.
C37_BlockingWhileStepping ==
    [][(ctrl # Null /\ last'.op = "va_sc_step_blocking") =>
          /\ ctrl' # Null
          /\ ~is_stepping(ctrl')
          /\ ctrl'.field.generation = ctrl.field.generation + 1
          /\ ctrl'.field.generation = mark'.begin.generation + 1
          /\ IF is_stepping(ctrl)
             THEN /\ mark'.begin = mark.begin
                  /\ ctrl.field = mark.begin
                  /\ ctrl'.field.cells =
                        ProcessedThrough(ctrl.active_step, ctrl.active_step.total_tiles).target
                  /\ ctrl'.field.cells = ProcessedThrough(Begun, Begun.total_tiles).target
             ELSE /\ mark'.begin = ctrl.field
                  /\ ctrl'.field.cells =
                        ProcessedThrough(BeginStepBody(ctrl).ctrl.active_step,
                                         BeginStepBody(ctrl).ctrl.active_step.total_tiles).target
      ]_vars

\* step_blocking finished a step that host ticks had begun to work on.
C37_Witness ==
    /\ ctrl # Null
    /\ ~is_stepping(ctrl)
    /\ last.op = "va_sc_step_blocking"
    /\ mark.ticks >= 1
    /\ ctrl.field.generation = mark.begin.generation + 1
    /\ ctrl.field.cells # mark.begin.cells

\* C38: after begin_step the queue is as long as the tile count,
\* ceil(w/16) * ceil(h/16) * ceil(d/16), so every index a tick claims below
\* total_tiles is an index into tile_queue.
C38_QueueLengthMatches ==
    Stepping =>
        /\ ctrl.active_step.total_tiles =
              TilesAlong(ctrl.field.width) * TilesAlong(ctrl.field.height)
                  * TilesAlong(ctrl.field.depth)
        /\ Len(ctrl.active_step.tile_queue) = ctrl.active_step.total_tiles
        /\ \A tile_idx \in 0 .. ctrl.active_step.total_tiles - 1 :
              tile_idx + 1 \in DOMAIN ctrl.active_step.tile_queue

====
